---------------------------- MODULE Spec2Model ----------------------------
(***************************************************************************)
(* Karl the Star Vanguard (src/src/App.tsx): the session state machine and *)
(* the per-frame simulation step update().                                 *)
(*                                                                         *)
(* What is kept exactly: the React state of the session, the engine        *)
(* record, every counter and timer with the constants of the source, and   *)
(* the index mechanics of Array.forEach with splice inside the callback.   *)
(*                                                                         *)
(* What is abstracted: positions and velocities, the wall clock and        *)
(* Math.random.  Everything update() derives from them in one frame (which *)
(* entities overlap, which leave the playfield, the random rolls, whether  *)
(* the fire key is down and the cooldown has elapsed) is the frame's       *)
(* oracle, a record `o' chosen with \E.  Entities are named inside a frame *)
(* by a tag, their position in the list when the frame reaches them.       *)
(*                                                                         *)
(* A React state update made by a handler is committed with the handler:   *)
(* the updater functions are applied in call order at the end of the       *)
(* action, and the closure values update() reads (level, score,            *)
(* isGuardianMode, upgrades) are those of the frame's start.  The          *)
(* animation-loop effect runs again with that commit, except in SpecLoop,  *)
(* where the cleanup that cancels the requested frame is a step of its own *)
(* and the requested frame may come first.                                 *)
(*                                                                         *)
(* Hit points are stored in half points, since bulletPower grows in steps  *)
(* of 0.5.                                                                 *)
(***************************************************************************)
EXTENDS Integers, Sequences, FiniteSets, TLC

\* ------------------------------------------------------------------ bounds
\* Lists longer than these at the end of a frame are not explored.
MaxBullets == 2
MaxEnemyBullets == 1
MaxEnemies == 2
MaxPowerUps == 2
\* Score above this is not explored in the default specification.
MaxScore == 300
\* Frames of a session explored by the default specification.
MaxFrames == 380
\* Frames of a session explored by SpecArmor: the script reaches level 3 in
\* frame 995.
ArmorFrames == 1480
\* Frames of a session explored by SpecLevel: the script reaches score 6000 at
\* level 3 in frame 1345; and the frame in which the player may pause.
LevelFrames == 1500
LevelPause == 1385
\* Frames of a session explored by SpecShield, whose script reaches level 3
\* in frame 995 with the shield up.
ShieldFrames == 1115
\* SpecGuardian: the frame the script ends in (38 enemies have escaped a
\* guardian session), the frames of a session explored and the frame in which
\* the player may pause.
\* SpecBoss, whose script reaches level 10 in frame 2895 (the boss appears in
\* frame 2910): the frame in which the player may pause (the first in which
\* the boss can be dead), the frame from which the script wears the boss down,
\* the half points of hp it leaves the boss, the frames of a session explored
\* and the power-ups listed.
BossPause == 5247
BossWear == 2945
BossLeft == 4
BossFrames == 5400
BossPowerUps == 10
GuardianFrom == 2476
GuardianFrames == 2600
GuardianPause == 2515
\* An eventful frame is explored at most this many frames before a due frame.
EarlyFrames == 0
\* At most this many inputs and overlaps are explored in one frame.
MaxEvents == 2
\* Pickups of one kind explored per session.
MaxPickups == 1
\* Frames explored that a replaced render's loop runs before it is cancelled.
MaxStaleTicks == 1
\* SpecSalvo: the bullets listed, the inputs and overlaps of one frame and
\* the frames of a session.
SalvoBullets == 3
SalvoEvents == 3
SalvoFrames == 190
\* Whole minutes of a session told apart.
MaxMinutes == 3
\* SpecHero: the frames of a session.
HeroFrames == 100
\* SpecStore: the coins under 'tina_coins', and the frames of a session.
StoreCoins == 1050
StoreFrames == 190
\* SpecShop: the coins of the three process starts, the frame at which the
\* script ends and the last frame, the seconds of a session.
ShopCoins == 600
TripleCoins == 2000
NearCapCoins == 2250
ShopFrom == 1750
ShopFrames == 2050
ShopSecs == 32
\* Frames of a session explored by SpecUntouched: the script reaches score
\* 7900 at level 4 in frame 1699.
UntouchedFrames == 1850
\* SpecSession: the frame in which the player may pause (the first due frame
\* after the script) and the frames of a session (the third contact of a normal
\* session comes in frame 2068).
SessionPause == 1785
SessionFrames == 2110

\* --------------------------------------------------------------- constants
GuardianCost == 450
GuardianLives == 999999
TripleForever == 999999
EscapeLimit == 40
LevelScore == 2000
PowerUpPeriod == 600
InvulnBullet == 60
InvulnContact == 120
BossEvery == 10
BossScore == 5000
BossBaseHp == 50
BossCoins == 10
BossVolley == 5
TripleCharge == 30
TripleShots == 3
CoinValue == 10
EliteLevel == 3
HpScale == 2
AceKills == 50
PickupGoal == 3
RichCoins == 1000
UntouchableLevel == 5

\* ----------------------------------------------------------------- helpers
Max(a, b) == IF a >= b THEN a ELSE b
Min(a, b) == IF a <= b THEN a ELSE b

\* Array.prototype.splice(k, 1) with k counted from 1: beyond the end it
\* removes nothing.
Splice(s, k) ==
    IF k >= 1 /\ k <= Len(s)
    THEN SubSeq(s, 1, k - 1) \o SubSeq(s, k + 1, Len(s))
    ELSE s

\* n copies of x appended to s (the pushes of a for loop).
RECURSIVE PushN(_, _, _)
PushN(s, x, n) == IF n <= 0 THEN s ELSE PushN(Append(s, x), x, n - 1)

\* Tags of a fresh list 1..n
Tags(n) == [i \in 1..n |-> i]

GameStates == {"START", "PLAYING", "PAUSED", "GAMEOVER", "UPGRADE", "GUARDIAN_RESULT"}

AchievementIds ==
    {"first_blood", "survivor", "ace_pilot", "shield_master", "power_hungry",
     "rich_man", "untouchable", "boss_slayer", "guardian_hero"}

\* The defaults of the upgrades record (bulletPower in half points).
DefaultUpgrades ==
    [maxLives |-> 3, tripleShotLevel |-> 0, fireRate |-> 200,
     moveSpeed |-> 6, bulletPower |-> 1 * HpScale, armorStrength |-> 5]

\* ------------------------------------------------------------ localStorage
\* A stored item is a text, a sequence of symbols: one string per character,
\* except that a quoted key of a JSON object is one symbol.  getItem() of a
\* missing key gives null, which the initializers do not tell from the empty
\* text (`saved ? ... : ...'): both are <<>> here.
Digit == <<"0", "1", "2", "3", "4", "5", "6", "7", "8", "9">>

IsDigit(ch) == \E d \in 1..10 : Digit[d] = ch

DigitValue(ch) == (CHOOSE d \in 1..10 : Digit[d] = ch) - 1

RECURSIVE NatText(_)
NatText(n) ==
    IF n < 10 THEN <<Digit[n + 1]>>
    ELSE Append(NatText(n \div 10), Digit[(n % 10) + 1])

\* Number.prototype.toString() of an integer.
NumberText(n) == IF n < 0 THEN <<"-">> \o NatText(-n) ELSE NatText(n)

\* The value of the digits of s from position i on, after the digits acc.
RECURSIVE ReadDigits(_, _, _)
ReadDigits(s, i, acc) ==
    IF i <= Len(s) /\ IsDigit(s[i])
    THEN ReadDigits(s, i + 1, acc * 10 + DigitValue(s[i]))
    ELSE acc

\* The position after the digits of s from position i on.
RECURSIVE SkipDigits(_, _)
SkipDigits(s, i) ==
    IF i <= Len(s) /\ IsDigit(s[i]) THEN SkipDigits(s, i + 1) ELSE i

\* parseInt(s): the integer the text starts with, NaN when it starts with none.
ParseInt(s) ==
    LET neg == Len(s) > 0 /\ s[1] = "-"
        from == IF Len(s) > 0 /\ s[1] \in {"-", "+"} THEN 2 ELSE 1
    IN IF SkipDigits(s, from) = from THEN "NaN"
       ELSE IF neg THEN 0 - ReadDigits(s, from, 0) ELSE ReadDigits(s, from, 0)

\* The keys of the upgrades record in the order of the object literal, which
\* the spreads of the purchase handlers keep.
UpgradeKeys ==
    <<"maxLives", "tripleShotLevel", "fireRate", "moveSpeed", "bulletPower",
      "armorStrength">>

\* How many half points one unit of a field's number is.
Scale(key) == IF key = "bulletPower" THEN HpScale ELSE 1

\* The JSON text of a field's number: bulletPower 3 (half points) is 1.5.
JsonNumber(key, v) ==
    NatText(v \div Scale(key))
        \o (IF v % Scale(key) = 0 THEN <<>> ELSE <<".", "5">>)

\* The texts of the fields of u from key i on, separated by commas.
RECURSIVE JsonFields(_, _, _)
JsonFields(u, i, first) ==
    IF i > Len(UpgradeKeys) THEN <<>>
    ELSE IF UpgradeKeys[i] \notin DOMAIN u THEN JsonFields(u, i + 1, first)
    ELSE (IF first THEN <<>> ELSE <<",">>)
            \o <<UpgradeKeys[i], ":">> \o JsonNumber(UpgradeKeys[i], u[UpgradeKeys[i]])
            \o JsonFields(u, i + 1, FALSE)

\* JSON.stringify(upgrades)
JsonStringify(u) == <<"{">> \o JsonFields(u, 1, TRUE) \o <<"}">>

\* What a throwing JSON.parse leaves: no record, the error.
SyntaxError == [ok |-> FALSE, value |-> [name |-> "SyntaxError"]]

\* The object of the pairs <<key, value>> read, a later pair of a key
\* replacing an earlier one.
ObjectOf(pairs) ==
    [k \in {pairs[i][1] : i \in 1..Len(pairs)} |->
        pairs[CHOOSE i \in 1..Len(pairs) :
                  /\ pairs[i][1] = k
                  /\ \A j \in (i + 1)..Len(pairs) : pairs[j][1] # k][2]]

\* JSON.parse from a key at position i of s, inside an object: a key, a
\* colon, a number (digits, then perhaps a point and the digit 5: other
\* fractions are not half points), and a comma with more fields or the
\* closing brace at the end of the text.
RECURSIVE ParseFields(_, _, _)
ParseFields(s, i, pairs) ==
    LET key == s[i]
        j == SkipDigits(s, i + 2)
        half == j + 1 <= Len(s) /\ s[j] = "." /\ s[j + 1] = "5"
        k == IF half THEN j + 2 ELSE j
        v == ReadDigits(s, i + 2, 0) * Scale(key) + (IF half THEN 1 ELSE 0)
    IN IF i + 2 > Len(s) THEN SyntaxError
       ELSE IF \E n \in 1..Len(UpgradeKeys) : UpgradeKeys[n] = key
            THEN IF s[i + 1] # ":" \/ j = i + 2 \/ k > Len(s) THEN SyntaxError
                 ELSE IF half /\ Scale(key) = 1 THEN SyntaxError
                 ELSE IF s[k] = "," THEN ParseFields(s, k + 1, Append(pairs, <<key, v>>))
                 ELSE IF s[k] = "}" /\ k = Len(s)
                      THEN [ok |-> TRUE, value |-> ObjectOf(Append(pairs, <<key, v>>))]
                      ELSE SyntaxError
            ELSE SyntaxError

\* JSON.parse(s) of the texts explored: an object of upgrade fields, or a
\* SyntaxError.
JsonParse(s) ==
    IF Len(s) < 2 \/ s[1] # "{" THEN SyntaxError
    ELSE IF Len(s) = 2
         THEN IF s[2] = "}" THEN [ok |-> TRUE, value |-> ObjectOf(<<>>)] ELSE SyntaxError
         ELSE ParseFields(s, 2, <<>>)

\* The initializer of totalCoins: the key read is 'tina_coins'.
LoadCoins(ls) == IF ls.tina_coins = <<>> THEN 0 ELSE ParseInt(ls.tina_coins)

\* The initializer of upgrades: what JSON.parse returns is the record.
LoadUpgrades(ls) ==
    IF ls.karl_upgrades = <<>> THEN [ok |-> TRUE, value |-> DefaultUpgrades]
    ELSE JsonParse(ls.karl_upgrades)

\* The save effect: the keys written are 'karl_coins' and 'karl_upgrades'.
Saved(ls, coins, ups) ==
    [ls EXCEPT !.karl_coins = NumberText(coins), !.karl_upgrades = JsonStringify(ups)]

\* spawnRate of update(): Math.max(15, 50 - level * 4)
SpawnRate(lv) == Max(15, 50 - lv * 4)

VARIABLES
    gameState,        \* useState<GameState>
    isGuardianMode,   \* useState(false)
    escapedEnemies,   \* useState(0)
    score,            \* useState(0)
    sessionCoins,     \* useState(0)
    lives,            \* useState(3)
    playerHits,       \* useState(0)
    level,            \* useState(1)
    achievements,     \* the set of unlocked achievement ids
    totalCoins,       \* useState(persisted)
    upgrades,         \* useState(persisted)
    unlockedAchievement,  \* useState<Achievement | null>(null): the toast
    engine,           \* engineRef.current
    loop,             \* the animation frame request of a render React has replaced
    localStorage,     \* the items 'tina_coins', 'karl_coins', 'karl_upgrades'
    uncaught          \* the error thrown while rendering App, "none" when mounted

vars == <<gameState, isGuardianMode, escapedEnemies, score, sessionCoins, lives,
          playerHits, level, achievements, totalCoins, upgrades,
          unlockedAchievement, engine, loop, localStorage, uncaught>>

\* What a handler that only calls setGameState leaves alone.
besideGameState ==
    <<isGuardianMode, escapedEnemies, score, sessionCoins, lives, playerHits,
      level, achievements, totalCoins, upgrades, unlockedAchievement, engine,
      localStorage, uncaught>>


\* -------------------------------------------------------------- the world
\* The state a handler works on: the React state and engineRef.current.
World ==
    [gameState |-> gameState, escapedEnemies |-> escapedEnemies, score |-> score,
     sessionCoins |-> sessionCoins, lives |-> lives, playerHits |-> playerHits,
     level |-> level, achievements |-> achievements, totalCoins |-> totalCoins,
     unlockedAchievement |-> unlockedAchievement, engine |-> engine]

\* What the closure of update() holds: the values of the render in which the
\* animation-loop effect last ran.
Closure ==
    [level |-> level, score |-> score, isGuardianMode |-> isGuardianMode,
     upgrades |-> upgrades]

\* engineRef at construction; the player of startGame.  elapsed: the whole
\* minutes Date.now() - engine.startTime has passed, up to MaxMinutes (0: at
\* most 60000 ms); startTime is 0 at construction.  log: what the passes of
\* the last frame of update() did, in order (kept by the scenarios that ask
\* for it, empty otherwise).
InitEngine ==
    [shield |-> FALSE, invulnerable |-> 0, tripleShot |-> 0,
     bullets |-> <<>>, enemyBullets |-> <<>>, enemies |-> <<>>, powerUps |-> <<>>,
     enemySpawnTimer |-> 0, powerUpSpawnTimer |-> 0,
     frameCount |-> 0,
     enemiesKilled |-> 0, shieldsPicked |-> 0, tripleShotsPicked |-> 0,
     levelUpPending |-> FALSE, levelUpTimers |-> 0, toastTimers |-> 0,
     lostLifeThisRun |-> FALSE, bossActive |-> FALSE, elapsed |-> MaxMinutes,
     log |-> <<>>]

\* Entities carry a tag inside a frame: their index when their list's pass
\* (for bullets: the bullet pass) starts.  Pushed later in the frame: tag 0.
TagList(s) == [i \in 1..Len(s) |-> [s[i] EXCEPT !.tag = i]]
Untag(s) == [i \in 1..Len(s) |-> [s[i] EXCEPT !.tag = 0]]

NewBullet == [power |-> 1, tag |-> 0]

\* An entry of the log: in the pass over `list', the callback of the element
\* tagged `tag' did `did' ("visit": the callback started; "pass": the forEach
\* started on tag elements), together with the element tagged `by' of another
\* list (0: none), and spliced the element tagged `gone' out (0: none).
Event(list, did, tag, gone, by) ==
    [list |-> list, did |-> did, tag |-> tag, gone |-> gone, by |-> by]

Log(w, ev) == [w EXCEPT !.engine.log = Append(@, ev)]
Forget(w) == [w EXCEPT !.engine.log = <<>>]

TagAt(s, k) == IF k <= Len(s) THEN s[k].tag ELSE 0

\* engine.<list>.forEach(...) starts.
StartPass(w, list) ==
    Log([w EXCEPT !.engine[list] = TagList(@)],
        Event(list, "pass", Len(w.engine[list]), 0, 0))

\* engine.<list>.splice(k, 1) in the callback of the element tagged `tag':
\* the element found at index k leaves, whichever it is.
Remove(w, list, k, did, tag, by) ==
    Log([w EXCEPT !.engine[list] = Splice(@, k)],
        Event(list, did, tag, TagAt(w.engine[list], k), by))

\* A variant that shows the toast again for an achievement already unlocked.
UnlockAchievementAgain(w, id) ==
    IF id \in AchievementIds
    THEN [w EXCEPT !.achievements = @ \cup {id},
                   !.unlockedAchievement = id,
                   !.engine.toastTimers = @ + 1]
    ELSE w

\* unlockAchievement(id), with what its updater does: the toast is shown and
\* a timeout of 3 s is set to take it down.
UnlockAchievement(w, id) ==
    IF id \in AchievementIds /\ id \notin w.achievements
    THEN [w EXCEPT !.achievements = @ \cup {id},
                   !.unlockedAchievement = id,
                   !.engine.toastTimers = @ + 1]
    ELSE w

\* spawnPowerUp(x, y, forceType)
SpawnPowerUp(w, type) ==
    [w EXCEPT !.engine.powerUps =
        Append(@, [type |-> type, value |-> IF type = "COIN" THEN CoinValue ELSE 0,
                   tag |-> 0])]

\* ------------------------------------------------- update(): steps 2 and 3
\* 2. Shooting.  o.fire: the fire key is down and the cooldown has elapsed.
Shoot(w, c, o) ==
    IF ~o.fire THEN w
    ELSE IF w.engine.tripleShot > 0
         THEN [w EXCEPT !.engine.bullets = PushN(@, NewBullet, TripleShots),
                        !.engine.tripleShot =
                            IF c.upgrades.tripleShotLevel < 2 THEN @ - 1 ELSE @]
         ELSE [w EXCEPT !.engine.bullets = Append(@, NewBullet)]

\* 3. engine.bullets.forEach((b, i) => ...): the bullet at index k is moved
\* and, when it left the playfield (o.bOut), spliced out at k; forEach then
\* goes on with index k + 1 of the shortened list.
RECURSIVE BulletPass(_, _, _)
BulletPass(w, k, o) ==
    IF k > Len(w.engine.bullets) THEN w
    ELSE LET b == w.engine.bullets[k]
             w1 == Log(w, Event("bullets", "visit", b.tag, 0, 0))
         IN IF b.tag \in o.bOut
            THEN BulletPass(Remove(w1, "bullets", k, "out", b.tag, 0), k + 1, o)
            ELSE BulletPass(w1, k + 1, o)

\* setLives(l => { if (l <= 1) setGameState('GAMEOVER'); return l - 1; })
\* A variant that tests the lives left after the decrement has been applied
\* twice (l <= 0 instead of l <= 1).
LoseLifeLate(w) ==
    [w EXCEPT !.lives = @ - 1,
              !.gameState = IF w.lives <= 0 THEN "GAMEOVER" ELSE @]

\* A variant that takes every life left (return 0).
LoseLifeAll(w) ==
    [w EXCEPT !.lives = 0,
              !.gameState = IF w.lives <= 1 THEN "GAMEOVER" ELSE @]

LoseLife(w) ==
    [w EXCEPT !.lives = @ - 1,
              !.gameState = IF w.lives <= 1 THEN "GAMEOVER" ELSE @]

\* A variant whose armor gives way one hit later (newHits > armorStrength).
ArmorHitLate(w, c) ==
    LET newHits == w.playerHits + 1 IN
    IF newHits > c.upgrades.armorStrength
    THEN [LoseLife(w) EXCEPT !.playerHits = 0, !.engine.lostLifeThisRun = TRUE]
    ELSE [w EXCEPT !.playerHits = newHits]

\* setPlayerHits(h => ...) of the enemy-bullet hit, with what its updater does.
ArmorHit(w, c) ==
    LET newHits == w.playerHits + 1 IN
    IF newHits >= c.upgrades.armorStrength
    THEN [LoseLife(w) EXCEPT !.playerHits = 0, !.engine.lostLifeThisRun = TRUE]
    ELSE [w EXCEPT !.playerHits = newHits]

\* A variant whose shield does not stop the bullet.
BulletBreaksShield(w, c, k) ==
    LET w1 == [w EXCEPT !.engine.enemyBullets = Splice(@, k),
                        !.engine.shield = FALSE]
        w2 == IF ~c.isGuardianMode THEN ArmorHit(w1, c) ELSE w1
    IN [w2 EXCEPT !.engine.invulnerable = InvulnBullet]

\* The body of `if (dist < player.width / 2)' in the enemy-bullet pass.
BulletHitsPlayer(w, c, k) ==
    LET w1 == [w EXCEPT !.engine.enemyBullets = Splice(@, k)]
        w2 == IF w1.engine.shield THEN [w1 EXCEPT !.engine.shield = FALSE]
              ELSE IF ~c.isGuardianMode THEN ArmorHit(w1, c)
              ELSE w1
    IN [w2 EXCEPT !.engine.invulnerable = InvulnBullet]

\* engine.enemyBullets.forEach((b, i) => ...): b is the element found at
\* index k; o.ebOut: it left the playfield, o.ebHit: it overlaps the player.
RECURSIVE EnemyBulletPass(_, _, _, _)
EnemyBulletPass(w, c, k, o) ==
    IF k > Len(w.engine.enemyBullets) THEN w
    ELSE LET b == w.engine.enemyBullets[k]
             w0 == Log(w, Event("enemyBullets", "visit", b.tag, 0, 0))
             w1 == IF b.tag \in o.ebOut
                   THEN Remove(w0, "enemyBullets", k, "out", b.tag, 0)
                   ELSE w0
             w2 == IF w1.engine.invulnerable <= 0 /\ b.tag \in o.ebHit
                   THEN Log(BulletHitsPlayer(w1, c, k),
                            Event("enemyBullets", "hit", b.tag,
                                  TagAt(w1.engine.enemyBullets, k), 0))
                   ELSE w1
         IN EnemyBulletPass(w2, c, k + 1, o)

\* ------------------------------------------------------ update(): step 5
\* spawnEnemy().  o.roll names the interval Math.random() fell in:
\* "r90" (> 0.9), "r75" (0.75, 0.9], "r55" (0.55, 0.75], "low" (<= 0.55).
NewEnemy(type, hp, scoreVal) ==
    [type |-> type, hp |-> hp * HpScale, maxHp |-> hp * HpScale,
     score |-> scoreVal, tag |-> 0]

RolledEnemy(lv, roll) ==
    IF lv >= EliteLevel /\ roll = "r90" THEN NewEnemy("ELITE", 2, 500)
    ELSE IF roll \in {"r90", "r75"} THEN NewEnemy("HEAVY", 3, 300)
    ELSE IF roll = "r55" THEN NewEnemy("FAST", 1, 200)
    ELSE NewEnemy("BASIC", 1, 100)

\* A variant that spawns a boss at every multiple of 10, whatever is listed.
SpawnEnemyAgain(w, c, o) ==
    IF c.level % BossEvery = 0
    THEN [w EXCEPT !.engine.bossActive = TRUE,
                   !.engine.enemies =
                       Append(@, NewEnemy("BOSS", BossBaseHp + c.level * 10, BossScore))]
    ELSE [w EXCEPT !.engine.enemies = Append(@, RolledEnemy(c.level, o.roll))]

\* A variant without `if (engineRef.current.bossActive) return'.
SpawnEnemyCrowd(w, c, o) ==
    IF c.level % BossEvery = 0 /\ Len(w.engine.enemies) = 0
          /\ ~w.engine.bossActive
    THEN [w EXCEPT !.engine.bossActive = TRUE,
                   !.engine.enemies =
                       Append(@, NewEnemy("BOSS", BossBaseHp + c.level * 10, BossScore))]
    ELSE [w EXCEPT !.engine.enemies = Append(@, RolledEnemy(c.level, o.roll))]

SpawnEnemy(w, c, o) ==
    IF w.engine.bossActive THEN w
    ELSE IF c.level % BossEvery = 0 /\ Len(w.engine.enemies) = 0
              /\ ~w.engine.bossActive
    THEN [w EXCEPT !.engine.bossActive = TRUE,
                   !.engine.enemies =
                       Append(@, NewEnemy("BOSS", BossBaseHp + c.level * 10, BossScore))]
    ELSE [w EXCEPT !.engine.enemies = Append(@, RolledEnemy(c.level, o.roll))]

\* A variant that already spawns when the timer reaches the threshold
\* (timer >= spawnRate).
SpawnStepEarly(w, c, o) ==
    LET t == w.engine.enemySpawnTimer + 1 IN
    IF t >= SpawnRate(c.level)
    THEN [SpawnEnemy(w, c, o) EXCEPT !.engine.enemySpawnTimer = 0]
    ELSE [w EXCEPT !.engine.enemySpawnTimer = t]

\* engine.enemySpawnTimer++ and the spawn it may trigger.
SpawnStep(w, c, o) ==
    LET t == w.engine.enemySpawnTimer + 1 IN
    IF t > SpawnRate(c.level)
    THEN [SpawnEnemy(w, c, o) EXCEPT !.engine.enemySpawnTimer = 0]
    ELSE [w EXCEPT !.engine.enemySpawnTimer = t]

\* Enemy shooting: the boss volley, or the single shot of an ELITE or, from
\* level 3, of any enemy.  o.shoot: the random test passed and the cooldown
\* has elapsed.
EnemyShoots(w, c, e, o) ==
    IF e.tag \notin o.shoot THEN w
    ELSE IF e.type = "BOSS"
    THEN [w EXCEPT !.engine.enemyBullets = PushN(@, NewBullet, BossVolley)]
    ELSE IF e.type = "ELITE" \/ c.level >= EliteLevel
    THEN [w EXCEPT !.engine.enemyBullets = Append(@, NewBullet)]
    ELSE w

\* A variant without the guardian test.
EnemyContactAlways(w, c, e, k, o) ==
    IF w.engine.invulnerable <= 0 /\ e.tag \in o.contact
    THEN LET w1 == IF w.engine.shield THEN [w EXCEPT !.engine.shield = FALSE]
                   ELSE [LoseLife(w) EXCEPT !.engine.lostLifeThisRun = TRUE]
             w2 == [w1 EXCEPT !.engine.invulnerable = InvulnContact]
         IN IF e.type # "BOSS"
            THEN [w2 EXCEPT !.engine.enemies = Splice(@, k)]
            ELSE w2
    ELSE w

\* A variant without `if (player.invulnerable <= 0)'.
EnemyContactUnguarded(w, c, e, k, o) ==
    IF e.tag \in o.contact
    THEN LET w1 == IF w.engine.shield THEN [w EXCEPT !.engine.shield = FALSE]
                   ELSE IF ~c.isGuardianMode
                   THEN [LoseLife(w) EXCEPT !.engine.lostLifeThisRun = TRUE]
                   ELSE w
             w2 == [w1 EXCEPT !.engine.invulnerable = InvulnContact]
         IN IF e.type # "BOSS"
            THEN Remove(w2, "enemies", k, "contact", e.tag, 0)
            ELSE Log(w2, Event("enemies", "contact", e.tag, 0, 0))
    ELSE w

\* Check collision with player: the enemy e found at index k.
EnemyContact(w, c, e, k, o) ==
    IF w.engine.invulnerable <= 0 /\ e.tag \in o.contact
    THEN LET w1 == IF w.engine.shield THEN [w EXCEPT !.engine.shield = FALSE]
                   ELSE IF ~c.isGuardianMode
                   THEN [LoseLife(w) EXCEPT !.engine.lostLifeThisRun = TRUE]
                   ELSE w
             w2 == [w1 EXCEPT !.engine.invulnerable = InvulnContact]
         IN IF e.type # "BOSS"
            THEN Remove(w2, "enemies", k, "contact", e.tag, 0)
            ELSE Log(w2, Event("enemies", "contact", e.tag, 0, 0))
    ELSE w

\* The body of `if (e.hp <= 0)': e is the enemy of the callback, k its index
\* when the callback started.
\* A variant without engine.enemies.splice(i, 1).
EnemyDiesStays(w, e, k, o) ==
    LET w1 == [w EXCEPT !.score = @ + e.score, !.engine.enemiesKilled = @ + 1]
    IN IF w1.engine.enemiesKilled = 1 THEN UnlockAchievement(w1, "first_blood") ELSE w1

EnemyDies(w, e, k, o) ==
    LET w1 == [w EXCEPT !.score = @ + e.score, !.engine.enemiesKilled = @ + 1]
        w2 == IF e.type = "BOSS"
              THEN UnlockAchievement(
                       [w1 EXCEPT !.engine.bossActive = FALSE,
                                  !.engine.powerUps =
                                      PushN(@, [type |-> "COIN", value |-> CoinValue,
                                                tag |-> 0], BossCoins)],
                       "boss_slayer")
              ELSE IF e.tag \in o.coin THEN SpawnPowerUp(w1, "COIN")
              ELSE w1
        w3 == Remove(w2, "enemies", k, "kill", e.tag, 0)
        w4 == IF w3.engine.enemiesKilled = 1
              THEN UnlockAchievement(w3, "first_blood") ELSE w3
    IN IF w4.engine.enemiesKilled = AceKills
       THEN UnlockAchievement(w4, "ace_pilot") ELSE w4

\* A variant whose damage does not reach the enemy in the list.
WriteHpNot(w, e, k) == w

\* e.hp is a field of the enemy object: the list shows it while e is in it.
WriteHp(w, e, k) ==
    IF k <= Len(w.engine.enemies) /\ w.engine.enemies[k].tag = e.tag
    THEN [w EXCEPT !.engine.enemies[k].hp = e.hp]
    ELSE w

\* engine.bullets.forEach((b, bi) => ...) inside the callback of enemy e.
\* st = [w, e]; o.hit holds <<enemy tag, bullet tag>> for every overlap.
RECURSIVE BulletsOnEnemy(_, _, _, _, _)
BulletsOnEnemy(st, c, k, bi, o) ==
    IF bi > Len(st.w.engine.bullets) THEN st
    ELSE LET b == st.w.engine.bullets[bi] IN
         IF <<st.e.tag, b.tag>> \in o.hit
         THEN LET e1 == [st.e EXCEPT !.hp = @ - b.power * c.upgrades.bulletPower]
                  w1 == Remove(WriteHp(st.w, e1, k), "bullets", bi, "hit", b.tag,
                               e1.tag)
                  w2 == IF e1.hp <= 0 THEN EnemyDies(w1, e1, k, o) ELSE w1
              IN BulletsOnEnemy([w |-> w2, e |-> e1], c, k, bi + 1, o)
         ELSE BulletsOnEnemy(st, c, k, bi + 1, o)

\* A variant that ends the session one escape later (next > 40).
CountEscapeLate(w) ==
    LET next == w.escapedEnemies + 1 IN
    [w EXCEPT !.escapedEnemies = next,
              !.gameState = IF next > EscapeLimit THEN "GUARDIAN_RESULT" ELSE @]

\* setEscapedEnemies(prev => ...)
CountEscape(w) ==
    LET next == w.escapedEnemies + 1 IN
    [w EXCEPT !.escapedEnemies = next,
              !.gameState = IF next >= EscapeLimit THEN "GUARDIAN_RESULT" ELSE @]

\* Escape check of the enemy e found at index k.
EscapeCheck(w, c, e, k, o) ==
    IF e.tag \in o.esc
    THEN LET w1 == Remove(w, "enemies", k, "escape", e.tag, 0)
         IN IF c.isGuardianMode THEN CountEscape(w1) ELSE w1
    ELSE w

\* engine.enemies.forEach((e, i) => ...)
RECURSIVE EnemyPass(_, _, _, _)
EnemyPass(w, c, k, o) ==
    IF k > Len(w.engine.enemies) THEN w
    ELSE LET e == w.engine.enemies[k]
             w1 == EnemyShoots(Log(w, Event("enemies", "visit", e.tag, 0, 0)), c, e, o)
             w2 == EnemyContact(w1, c, e, k, o)
             st == BulletsOnEnemy([w |-> w2, e |-> e], c, k, 1, o)
             w3 == EscapeCheck(st.w, c, st.e, k, o)
         IN EnemyPass(w3, c, k + 1, o)

\* ------------------------------------------------ update(): steps 6 to 11
\* The pickup effect of power-up p (the branches on p.type).
Collect(w, p) ==
    IF p.type = "SHIELD"
    THEN LET w1 == [w EXCEPT !.engine.shield = TRUE, !.engine.shieldsPicked = @ + 1]
         IN IF w1.engine.shieldsPicked = PickupGoal
            THEN UnlockAchievement(w1, "shield_master") ELSE w1
    ELSE IF p.type = "TRIPLE_SHOT"
    THEN LET w1 == [w EXCEPT !.engine.tripleShot = @ + TripleCharge,
                             !.engine.tripleShotsPicked = @ + 1]
         IN IF w1.engine.tripleShotsPicked = PickupGoal
            THEN UnlockAchievement(w1, "power_hungry") ELSE w1
    ELSE IF p.type = "COIN"
    THEN LET v == IF p.value # 0 THEN p.value ELSE CoinValue
             w1 == [w EXCEPT !.sessionCoins = @ + v, !.totalCoins = @ + v]
         IN IF w1.totalCoins >= RichCoins
            THEN UnlockAchievement(w1, "rich_man") ELSE w1
    ELSE w

\* engine.bullets.forEach((b, bi) => ...) inside the callback of power-up p
\* found at index k; o.collect holds <<power-up tag, bullet tag>>.
RECURSIVE BulletsOnPowerUp(_, _, _, _, _)
BulletsOnPowerUp(w, p, k, bi, o) ==
    IF bi > Len(w.engine.bullets) THEN w
    ELSE LET b == w.engine.bullets[bi] IN
         IF <<p.tag, b.tag>> \in o.collect
         THEN LET w1 == Remove(w, "bullets", bi, "collect", b.tag, p.tag)
                  w2 == Collect(w1, p)
                  w3 == Remove(w2, "powerUps", k, "collect", p.tag, b.tag)
              IN BulletsOnPowerUp(w3, p, k, bi + 1, o)
         ELSE BulletsOnPowerUp(w, p, k, bi + 1, o)

\* engine.powerUps.forEach((p, i) => ...); o.puOut: p left the playfield.
RECURSIVE PowerUpPass(_, _, _)
PowerUpPass(w, k, o) ==
    IF k > Len(w.engine.powerUps) THEN w
    ELSE LET p == w.engine.powerUps[k]
             w1 == BulletsOnPowerUp(Log(w, Event("powerUps", "visit", p.tag, 0, 0)),
                                    p, k, 1, o)
             w2 == IF p.tag \in o.puOut
                   THEN Remove(w1, "powerUps", k, "out", p.tag, 0)
                   ELSE w1
         IN PowerUpPass(w2, k + 1, o)

\* engine.powerUpSpawnTimer++ and the spawn it may trigger; o.puRoll is the
\* type Math.random() chose.
PowerUpSpawnStep(w, o) ==
    LET t == w.engine.powerUpSpawnTimer + 1 IN
    IF t > PowerUpPeriod
    THEN [SpawnPowerUp(w, o.puRoll) EXCEPT !.engine.powerUpSpawnTimer = 0]
    ELSE [w EXCEPT !.engine.powerUpSpawnTimer = t]

\* A variant that lowers the level.
LevelDown(w, c) ==
    IF c.score > c.level * LevelScore
    THEN [w EXCEPT !.level = @ - 1,
                   !.engine.enemies = <<>>,
                   !.engine.enemyBullets = <<>>,
                   !.engine.levelUpPending = TRUE,
                   !.engine.levelUpTimers = @ + 1]
    ELSE w

\* A variant that already triggers at score = level * 2000.
LevelUpEarly(w, c) ==
    IF c.score >= c.level * LevelScore
    THEN [w EXCEPT !.level = @ + 1,
                   !.engine.enemies = <<>>,
                   !.engine.enemyBullets = <<>>,
                   !.engine.levelUpPending = TRUE,
                   !.engine.levelUpTimers = @ + 1]
    ELSE w

\* A variant that unlocks `untouchable' whatever the flag.
LevelUpUnlocks(w, c) ==
    IF c.score > c.level * LevelScore
    THEN LET nextLevel == w.level + 1
             w1 == [w EXCEPT !.level = nextLevel]
             w2 == IF nextLevel = UntouchableLevel
                   THEN UnlockAchievement(w1, "untouchable") ELSE w1
         IN [w2 EXCEPT !.engine.enemies = <<>>,
                       !.engine.enemyBullets = <<>>,
                       !.engine.levelUpPending = TRUE,
                       !.engine.levelUpTimers = @ + 1]
    ELSE w

\* 8. Level Up Logic, on the score and level of the closure.
LevelUp(w, c) ==
    IF c.score > c.level * LevelScore
    THEN LET nextLevel == w.level + 1
             w1 == [w EXCEPT !.level = nextLevel]
             w2 == IF nextLevel = UntouchableLevel /\ ~w1.engine.lostLifeThisRun
                   THEN UnlockAchievement(w1, "untouchable") ELSE w1
         IN [w2 EXCEPT !.engine.enemies = <<>>,
                       !.engine.enemyBullets = <<>>,
                       !.engine.levelUpPending = TRUE,
                       !.engine.levelUpTimers = @ + 1]
    ELSE w

\* 9. to 11.  Date.now() - engine.startTime > 60000: more than a minute.
FrameEnd(w, o) ==
    LET w1 == IF w.engine.elapsed >= 1 THEN UnlockAchievement(w, "survivor") ELSE w
    IN [w1 EXCEPT !.engine.invulnerable = IF @ > 0 THEN @ - 1 ELSE @,
                  !.engine.frameCount = @ + 1]

\* ---------------------------------------------------------------- update()
\* Steps 2 and 3.
UpdateBullets(w, c, o) ==
    LET w1 == Shoot(Forget(w), c, o)
        w2 == BulletPass(StartPass(w1, "bullets"), 1, o)
    IN EnemyBulletPass(StartPass(w2, "enemyBullets"), c, 1, o)

\* Step 5.
UpdateEnemies(w, c, o) ==
    LET w1 == SpawnStep(w, c, o)
    IN EnemyPass(StartPass(w1, "enemies"), c, 1, o)

\* Steps 6 to 11; the tags end with the frame.
UpdateRest(w, c, o) ==
    LET w1 == PowerUpSpawnStep(w, o)
        w2 == PowerUpPass(StartPass(w1, "powerUps"), 1, o)
        w3 == FrameEnd(LevelUp(w2, c), o)
    IN [w3 EXCEPT !.engine.bullets = Untag(@),
                  !.engine.enemyBullets = Untag(@),
                  !.engine.enemies = Untag(@),
                  !.engine.powerUps = Untag(@)]

Update(w, c, o) == UpdateRest(UpdateEnemies(UpdateBullets(w, c, o), c, o), c, o)

\* ------------------------------------------------------- the frame oracle
Rolls == {"r90", "r75", "r55", "low"}

SubsetsUpTo(S, n) == {x \in SUBSET S : Cardinality(x) <= n}

TagsOf(s) == {s[i].tag : i \in 1..Len(s)}

\* A frame in which nothing is pressed, overlaps or leaves.
QuietOracle ==
    [fire |-> FALSE, bOut |-> {}, ebOut |-> {}, ebHit |-> {},
     roll |-> "low", shoot |-> {}, contact |-> {}, hit |-> {}, esc |-> {},
     coin |-> {}, puRoll |-> "SHIELD", collect |-> {}, puOut |-> {}]

\* The number of inputs and overlaps an oracle (or a part of one) holds.
Events1(o) ==
    (IF o.fire THEN 1 ELSE 0) + Cardinality(o.bOut) + Cardinality(o.ebOut)
    + Cardinality(o.ebHit)
Events2(o) ==
    Cardinality(o.shoot) + Cardinality(o.contact) + Cardinality(o.hit)
    + Cardinality(o.esc)

\* A scenario sc bounds the inputs explored.  A session starts scripted: while
\* the score is below sc.freeScore the player fires in every due frame, the
\* bullets of the frame before have left, the new bullet hits the oldest enemy
\* and every roll falls on sc.grindRoll; then, up to frame sc.freeFrame, the
\* player holds still and every enemy leaves at the bottom.  With sc.grab the
\* scripted player lets an enemy pass to shoot a first shield instead.  After
\* the script every input sc allows is explored, up to frame sc.maxFrames.
Killing(w, c, sc) ==
    \/ c.score < sc.freeScore
    \/ /\ sc.wear
       /\ w.engine.frameCount >= sc.wearFrom
       /\ \E i \in 1..Len(w.engine.enemies) :
            w.engine.enemies[i].type = "BOSS" /\ w.engine.enemies[i].hp > BossLeft
Dodging(w, c, sc) == ~Killing(w, c, sc) /\ w.engine.frameCount < sc.freeFrame
Scripted(w, c, sc) == Killing(w, c, sc) \/ Dodging(w, c, sc)
Grabbing(w, c, sc) ==
    /\ sc.grab
    /\ Killing(w, c, sc)
    /\ Len(w.engine.powerUps) > 0
    /\ ~w.engine.shield
    /\ w.engine.shieldsPicked < MaxPickups

Script1(w, c, sc) ==
    [fire |-> Killing(w, c, sc), bOut |-> 1..Len(w.engine.bullets),
     ebOut |-> 1..Len(w.engine.enemyBullets), ebHit |-> {}]

Script2(w, c, sc) ==
    LET leave == ~Killing(w, c, sc) \/ Grabbing(w, c, sc) IN
    [roll |-> sc.grindRoll, shoot |-> {}, contact |-> {},
     hit |-> IF ~leave /\ Len(w.engine.enemies) > 0 /\ Len(w.engine.bullets) > 0
             THEN {<<1, w.engine.bullets[1].tag>>} ELSE {},
     esc |-> IF leave
             THEN {t \in 1..Len(w.engine.enemies) : w.engine.enemies[t].type # "BOSS"}
             ELSE {},
     coin |-> {}]

Script3(w, c, sc) ==
    LET grab == Grabbing(w, c, sc) /\ Len(w.engine.bullets) > 0 IN
    [puRoll |-> "SHIELD",
     collect |-> IF grab THEN {<<1, w.engine.bullets[1].tag>>} ELSE {},
     puOut |-> IF grab THEN {} ELSE 1..Len(w.engine.powerUps)]

\* Steps 2 and 3 of a frame on world w.  The bullets leave the playfield
\* oldest first; of the enemy bullets that overlap the player only the first
\* is resolved, so one is enough; a bullet below the playfield is out of the
\* player's reach.
Oracle1(w, c, sc) ==
    LET nb == Len(w.engine.bullets)
        neb == Len(w.engine.enemyBullets)
        shots == IF w.engine.tripleShot > 0 THEN TripleShots ELSE 1
        hits == {{}} \cup {{t} : t \in IF w.engine.invulnerable <= 0
                                       THEN 1..neb ELSE {}}
    IN IF Scripted(w, c, sc) THEN {Script1(w, c, sc)}
       ELSE UNION {
              UNION {
                { [fire |-> f, bOut |-> 1..j, ebOut |-> out, ebHit |-> h] :
                    out \in SubsetsUpTo((1..neb) \ h,
                                        sc.events - (IF f THEN 1 ELSE 0) - j
                                        - Cardinality(h)) }
                : j \in 0..Min(nb, sc.events - (IF f THEN 1 ELSE 0)
                                   - Cardinality(h)) }
              : f \in {x \in sc.fire : x => nb + shots <= sc.maxBullets},
                h \in {x \in hits : Cardinality(x) <= sc.events} }

\* Whether this frame's spawn rolls a type.
RollsType(w, c) ==
    /\ w.engine.enemySpawnTimer + 1 > SpawnRate(c.level)
    /\ ~w.engine.bossActive
    /\ ~(c.level % BossEvery = 0 /\ Len(w.engine.enemies) = 0)

\* Step 5 on world w (after steps 2 and 3), with at most `left' events.  An
\* enemy spawned in this frame is above the playfield: nothing reaches it.
\* An enemy below the playfield is out of reach of the player and of the
\* bullets, and the boss never leaves the top.  Of the enemies that touch the
\* player only the first is resolved.  The coin roll falls the same way for
\* every enemy of the frame.
Oracle2(w, c, sc, left) ==
    LET es == w.engine.enemies
        old == 1..Len(es)
        bs == TagsOf(w.engine.bullets)
        shooters == {t \in old : es[t].type \in {"BOSS", "ELITE"}
                                 \/ c.level >= EliteLevel}
        rolls == IF RollsType(w, c)
                 THEN {r \in sc.rolls : r = "r90" => c.level >= EliteLevel}
                 ELSE {"low"}
        shoots == IF sc.shoot THEN SubsetsUpTo(shooters, Min(1, left)) ELSE {{}}
        contacts == {{}} \cup {{t} : t \in IF sc.contact /\ left > 0
                                             /\ w.engine.invulnerable <= 0
                                          THEN old ELSE {}}
        Hit(h) == {t \in old : \E b \in bs : <<t, b>> \in h}
    IN IF Scripted(w, c, sc) THEN {Script2(w, c, sc)}
       ELSE UNION {
              UNION {
                { [roll |-> r, shoot |-> p[1], contact |-> p[2], hit |-> h,
                   esc |-> e, coin |-> cn] :
                    r \in rolls,
                    e \in IF sc.esc
                          THEN SubsetsUpTo(
                                 {t \in old : es[t].type # "BOSS"} \ (p[2] \cup Hit(h)),
                                 left - Cardinality(p[1]) - Cardinality(p[2])
                                 - Cardinality(h))
                          ELSE {{}},
                    cn \in {{}} \cup {{t \in Hit(h) : sc.coin /\ es[t].type # "BOSS"}} }
                : h \in SubsetsUpTo(old \X bs,
                                    left - Cardinality(p[1]) - Cardinality(p[2])) }
              : p \in {q \in shoots \X contacts :
                         Cardinality(q[1]) + Cardinality(q[2]) <= left} }

\* Steps 6 to 11 on world w (after step 5), with at most `left' events.  The
\* power-up the timer spawns in this frame is above the playfield.
Oracle3(w, c, sc, left) ==
    LET ps == 1..Len(w.engine.powerUps)
        bs == TagsOf(w.engine.bullets)
        Got(g) == {t \in ps : \E b \in bs : <<t, b>> \in g}
    IN IF Scripted(w, c, sc) THEN {Script3(w, c, sc)}
       ELSE UNION {
              { [puRoll |-> r, collect |-> g, puOut |-> out] :
                  r \in IF w.engine.powerUpSpawnTimer + 1 > PowerUpPeriod
                        THEN sc.puRolls ELSE {"SHIELD"},
                  out \in IF sc.puOut
                          THEN SubsetsUpTo(ps \ Got(g), left - Cardinality(g))
                          ELSE {{}} }
              : g \in IF sc.collect THEN SubsetsUpTo(ps \X bs, left) ELSE {{}} }

\* ----------------------------------------------------------------- actions
\* useEffect(..., [totalCoins, upgrades]): the items are written when the
\* commit of a handler changes one of the two.
SaveEffect ==
    /\ localStorage' = IF <<totalCoins', upgrades'>> = <<totalCoins, upgrades>>
                       THEN localStorage
                       ELSE Saved(localStorage, totalCoins', upgrades')
    /\ UNCHANGED uncaught

Commit(w) ==
    /\ gameState' = w.gameState
    /\ escapedEnemies' = w.escapedEnemies
    /\ score' = w.score
    /\ sessionCoins' = w.sessionCoins
    /\ lives' = w.lives
    /\ playerHits' = w.playerHits
    /\ level' = w.level
    /\ achievements' = w.achievements
    /\ totalCoins' = w.totalCoins
    /\ unlockedAchievement' = w.unlockedAchievement
    /\ engine' = w.engine
    /\ UNCHANGED <<isGuardianMode, upgrades>>
    /\ SaveEffect

\* The lists and counters explored.
WithinBounds(w, sc) ==
    /\ Len(w.engine.bullets) <= sc.maxBullets
    /\ Len(w.engine.enemyBullets) <= MaxEnemyBullets
    /\ Len(w.engine.enemies) <= MaxEnemies
    /\ Len(w.engine.powerUps) <= sc.maxPowerUps
    /\ w.engine.shieldsPicked <= MaxPickups
    /\ w.engine.tripleShotsPicked <= MaxPickups
    /\ w.score <= sc.maxScore
    /\ w.level <= sc.maxLevel

\* Frames until one in which a timer fires or the level rises.
DueIn ==
    IF score > level * LevelScore THEN 0
    ELSE Max(0, Min(SpawnRate(level) - engine.enemySpawnTimer,
                    PowerUpPeriod - engine.powerUpSpawnTimer))

\* n frames of update() in a row with the quiet oracle.
RECURSIVE QuietFrames(_, _, _)
QuietFrames(w, c, n) ==
    IF n <= 0 THEN w
    ELSE LET w1 == Update(w, c, QuietOracle)
         IN IF w1.engine.invulnerable >= 0 THEN QuietFrames(w1, c, n - 1) ELSE w1

\* How many frames before a due one the frames are explored one by one: the
\* scripted part of a session skips to the due frames, the part after it
\* reaches back sc.early frames.
Early(sc) == IF Scripted(World, Closure, sc) THEN EarlyFrames ELSE sc.early

\* loop(): the frames up to the next due one, nothing pressed or overlapping.
\* Each frame's commit runs the effect again before the next frame.
Idle(sc) ==
    /\ gameState = "PLAYING"
    /\ loop = <<>>
    /\ DueIn > Early(sc)
    /\ engine.frameCount + DueIn - Early(sc) <= sc.maxFrames
    /\ Scripted(World, Closure, sc) => engine.levelUpTimers = 0
    /\ Commit(Forget(QuietFrames(World, Closure, DueIn - Early(sc))))
    /\ loop' = <<>>

\* One frame of update() under the inputs scenario sc allows, and the commit
\* of its state updates.
Frame(sc) ==
    /\ gameState = "PLAYING"
    /\ loop = <<>>
    /\ DueIn <= Early(sc)
    /\ engine.frameCount < sc.maxFrames
    /\ Scripted(World, Closure, sc) => engine.levelUpTimers = 0
    /\ \E o1 \in Oracle1(World, Closure, sc) :
         LET wa == UpdateBullets(World, Closure, o1)
             left2 == sc.events - Events1(o1)
         IN \E o2 \in Oracle2(wa, Closure, sc, left2) :
              LET wb == UpdateEnemies(wa, Closure, o2)
                  left3 == left2 - Events2(o2)
              IN \E o3 \in Oracle3(wb, Closure, sc, left3) :
                   LET w == UpdateRest(wb, Closure, o3)
                   IN WithinBounds(w, sc) /\ Commit(IF sc.log THEN w ELSE Forget(w))

\* loop(): one frame; the effect's cleanup and the effect of the new render
\* have run before the next frame.
Tick(sc) == Frame(sc) /\ loop' = <<>>

\* loop(): one frame whose commit changes a dependency of the effect
\* (gameState, level, score): loop() has requested the next frame before
\* the commit, and React runs the cleanup that cancels the request
\* (cancelAnimationFrame) and the new render's effect later, not with the
\* commit.
TickDeferred(sc) ==
    /\ Frame(sc)
    /\ loop' = IF <<gameState', level', score'>> # <<gameState, level, score>>
               THEN <<[c |-> Closure, ticks |-> 0]>>
               ELSE <<>>

\* The frame requested by the replaced render's loop comes before the
\* cleanup: in its closure gameState is 'PLAYING', so update() runs, on the
\* closure's level and score, and the next frame is requested.
StaleTick ==
    /\ loop # <<>>
    /\ loop[1].ticks < MaxStaleTicks
    /\ Commit(Forget(Update(World, loop[1].c, QuietOracle)))
    /\ loop' = <<[loop[1] EXCEPT !.ticks = @ + 1]>>

\* The effect's cleanup cancels the replaced render's request; the effect of
\* the committed render starts its own loop when gameState is 'PLAYING'.
FlushEffects ==
    /\ loop # <<>>
    /\ loop' = <<>>
    /\ UNCHANGED <<gameState, isGuardianMode, escapedEnemies, score, sessionCoins,
                   lives, playerHits, level, achievements, totalCoins, upgrades,
                   unlockedAchievement, engine, localStorage, uncaught>>

\* A variant that asks for more than the entry cost (totalCoins <= 450).
StartGameStrict(guardian) ==
    IF guardian /\ totalCoins <= GuardianCost
    THEN UNCHANGED vars
    ELSE /\ totalCoins' = IF guardian THEN totalCoins - GuardianCost ELSE totalCoins
         /\ isGuardianMode' = guardian
         /\ escapedEnemies' = IF guardian THEN 0 ELSE escapedEnemies
         /\ gameState' = "PLAYING"
         /\ score' = 0
         /\ sessionCoins' = 0
         /\ lives' = IF guardian THEN GuardianLives ELSE upgrades.maxLives
         /\ playerHits' = 0
         /\ level' = 1
         /\ engine' = [engine EXCEPT
                          !.invulnerable = 0,
                          !.shield = FALSE,
                          !.tripleShot = IF upgrades.tripleShotLevel = 2
                                         THEN TripleForever ELSE 0,
                          !.bullets = <<>>,
                          !.enemyBullets = <<>>,
                          !.enemies = <<>>,
                          !.powerUps = <<>>,
                          !.enemiesKilled = 0,
                          !.frameCount = 0,
                          !.shieldsPicked = 0,
                          !.tripleShotsPicked = 0,
                          !.lostLifeThisRun = FALSE,
                          !.bossActive = FALSE,
                          !.elapsed = 0]
         /\ loop' = <<>>
         /\ UNCHANGED <<achievements, upgrades, unlockedAchievement>>
         /\ SaveEffect

\* startGame(guardian)
StartGame(guardian) ==
    IF guardian /\ totalCoins < GuardianCost
    THEN UNCHANGED vars
    ELSE /\ totalCoins' = IF guardian THEN totalCoins - GuardianCost ELSE totalCoins
         /\ isGuardianMode' = guardian
         /\ escapedEnemies' = IF guardian THEN 0 ELSE escapedEnemies
         /\ gameState' = "PLAYING"
         /\ score' = 0
         /\ sessionCoins' = 0
         /\ lives' = IF guardian THEN GuardianLives ELSE upgrades.maxLives
         /\ playerHits' = 0
         /\ level' = 1
         /\ engine' = [engine EXCEPT
                          !.invulnerable = 0,
                          !.shield = FALSE,
                          !.tripleShot = IF upgrades.tripleShotLevel = 2
                                         THEN TripleForever ELSE 0,
                          !.bullets = <<>>,
                          !.enemyBullets = <<>>,
                          !.enemies = <<>>,
                          !.powerUps = <<>>,
                          !.enemiesKilled = 0,
                          !.frameCount = 0,
                          !.shieldsPicked = 0,
                          !.tripleShotsPicked = 0,
                          !.lostLifeThisRun = FALSE,
                          !.bossActive = FALSE,
                          !.elapsed = 0]
         /\ loop' = <<>>
         /\ UNCHANGED <<achievements, upgrades, unlockedAchievement>>
         /\ SaveEffect

\* The two start buttons of the START overlay.
Start(sc) ==
    /\ gameState = "START"
    /\ \E guardian \in sc.guardian : StartGame(guardian)

\* The GAMEOVER overlay's button, onClick={startGame}: startGame receives the
\* click event as `guardian', and an object is truthy.
Restart ==
    /\ gameState = "GAMEOVER"
    /\ StartGame(TRUE)

\* A variant that resumes from any state but PLAYING (`else' for
\* `else if (gameState === 'PAUSED')').
TogglePauseAny(sc) ==
    /\ gameState = "PLAYING" => engine.frameCount \in sc.pause
    /\ gameState' = IF gameState = "PLAYING" THEN "PAUSED" ELSE "PLAYING"
    /\ loop' = <<>>
    /\ UNCHANGED besideGameState

\* togglePause(): the P key in any state, the pause buttons.
TogglePause(sc) ==
    /\ gameState = "PLAYING" => engine.frameCount \in sc.pause
    /\ gameState' = IF gameState = "PLAYING" THEN "PAUSED"
                    ELSE IF gameState = "PAUSED" THEN "PLAYING"
                    ELSE gameState
    /\ loop' = <<>>
    /\ UNCHANGED besideGameState

\* The PAUSED overlay's quit button: setGameState('START').
Quit ==
    /\ gameState = "PAUSED"
    /\ gameState' = "START"
    /\ loop' = <<>>
    /\ UNCHANGED besideGameState

\* The START overlay's upgrade button and the UPGRADE overlay's back button.
OpenUpgrade ==
    /\ gameState = "START"
    /\ gameState' = "UPGRADE"
    /\ loop' = <<>>
    /\ UNCHANGED besideGameState

CloseUpgrade ==
    /\ gameState = "UPGRADE"
    /\ gameState' = "START"
    /\ loop' = <<>>
    /\ UNCHANGED besideGameState

\* The GUARDIAN_RESULT overlay's button; secs: whole seconds since startTime.
AckGuardian(sc) ==
    /\ gameState = "GUARDIAN_RESULT"
    /\ \E secs \in sc.secs :
         totalCoins' = totalCoins + (engine.enemiesKilled * 5 + secs)
    /\ gameState' = "START"
    /\ UNCHANGED <<isGuardianMode, escapedEnemies, score, sessionCoins, lives,
                   playerHits, level, achievements, upgrades, unlockedAchievement,
                   engine>>
    /\ loop' = <<>>
    /\ SaveEffect

\* setTimeout(() => engine.levelUpPending = false, 2000) coming due.
LevelUpTimeout ==
    /\ engine.levelUpTimers > 0
    /\ engine' = [engine EXCEPT !.levelUpPending = FALSE, !.levelUpTimers = @ - 1]
    /\ UNCHANGED <<gameState, isGuardianMode, escapedEnemies, score, sessionCoins,
                   lives, playerHits, level, achievements, totalCoins, upgrades,
                   unlockedAchievement, loop, localStorage, uncaught>>

\* setTimeout(() => setUnlockedAchievement(null), 3000) coming due.
ToastTimeout ==
    /\ engine.toastTimers > 0
    /\ unlockedAchievement' = "null"
    /\ engine' = [engine EXCEPT !.toastTimers = @ - 1]
    /\ UNCHANGED <<gameState, isGuardianMode, escapedEnemies, score, sessionCoins,
                   lives, playerHits, level, achievements, totalCoins, upgrades, loop,
                   localStorage, uncaught>>

\* Date.now() passes the next whole minute since engine.startTime, in
\* whatever state the session is.
Minute ==
    /\ engine.elapsed < MaxMinutes
    /\ engine' = [engine EXCEPT !.elapsed = @ + 1]
    /\ UNCHANGED <<gameState, isGuardianMode, escapedEnemies, score, sessionCoins,
                   lives, playerHits, level, achievements, totalCoins, upgrades,
                   unlockedAchievement, loop, localStorage, uncaught>>

\* The upgrades of the UPGRADE overlay, named by the field they raise.
Items == {UpgradeKeys[i] : i \in 1..Len(UpgradeKeys)}

\* The price on a purchase button's label.
Label(item, u) ==
    CASE item = "maxLives" -> u.maxLives * 200
      [] item = "bulletPower" -> (u.bulletPower * 500) \div HpScale
      [] item = "armorStrength" -> u.armorStrength * 150
      [] item = "tripleShotLevel" -> 2000
      [] item = "fireRate" -> 800 + (200 - u.fireRate) * 10
      [] item = "moveSpeed" -> u.moveSpeed * 100

\* Whether a purchase button's label shows the upgrade as complete.
Maxed(item, u) ==
    CASE item = "maxLives" -> u.maxLives >= 10
      [] item = "bulletPower" -> u.bulletPower >= 5 * HpScale
      [] item = "armorStrength" -> u.armorStrength >= 15
      [] item = "tripleShotLevel" -> u.tripleShotLevel >= 2
      [] item = "fireRate" -> u.fireRate <= 60
      [] item = "moveSpeed" -> u.moveSpeed >= 15

\* A variant of disabled that looks at the cap only.
DisabledAtCap(item, coins, u) == Maxed(item, u)

\* disabled={...} of a purchase button.
Disabled(item, coins, u) ==
    CASE item = "maxLives" -> coins < u.maxLives * 200 \/ u.maxLives >= 10
      [] item = "bulletPower" ->
             coins < (u.bulletPower * 500) \div HpScale \/ u.bulletPower >= 5 * HpScale
      [] item = "armorStrength" ->
             coins < u.armorStrength * 150 \/ u.armorStrength >= 15
      [] item = "tripleShotLevel" -> coins < 2000 \/ u.tripleShotLevel >= 2
      [] item = "fireRate" ->
             coins < 800 + (200 - u.fireRate) * 10 \/ u.fireRate <= 60
      [] item = "moveSpeed" -> coins < u.moveSpeed * 100 \/ u.moveSpeed >= 15

\* What setTotalCoins of a purchase button's onClick takes off.
Cost(item, u) ==
    CASE item = "maxLives" -> u.maxLives * 200
      [] item = "bulletPower" -> (u.bulletPower * 500) \div HpScale
      [] item = "armorStrength" -> u.armorStrength * 150
      [] item = "tripleShotLevel" -> 2000
      [] item = "fireRate" -> 800 + (200 - u.fireRate) * 10
      [] item = "moveSpeed" -> u.moveSpeed * 100

\* What setUpgrades of a purchase button's onClick makes of u.
Upgraded(item, u) ==
    CASE item = "maxLives" -> [u EXCEPT !.maxLives = @ + 1]
      [] item = "bulletPower" -> [u EXCEPT !.bulletPower = @ + 1]
      [] item = "armorStrength" -> [u EXCEPT !.armorStrength = @ + 1]
      [] item = "tripleShotLevel" -> [u EXCEPT !.tripleShotLevel = 2]
      [] item = "fireRate" -> [u EXCEPT !.fireRate = @ - 20]
      [] item = "moveSpeed" -> [u EXCEPT !.moveSpeed = @ + 1]

\* A click on a purchase button of the UPGRADE overlay: a disabled button
\* does not call onClick.
Purchase(item) ==
    /\ gameState = "UPGRADE"
    /\ IF Disabled(item, totalCoins, upgrades)
       THEN UNCHANGED vars
       ELSE /\ totalCoins' = totalCoins - Cost(item, upgrades)
            /\ upgrades' = Upgraded(item, upgrades)
            /\ SaveEffect
            /\ UNCHANGED <<gameState, isGuardianMode, escapedEnemies, score,
                           sessionCoins, lives, playerHits, level, achievements,
                           unlockedAchievement, engine, loop>>

\* What the initializers and the first run of the save effect make of the
\* items ls in store.  When an initializer throws, App is not mounted and no
\* effect runs.
Booted(ls) ==
    LET u == LoadUpgrades(ls)
    IN [totalCoins |-> LoadCoins(ls),
        upgrades |-> u.value,
        localStorage |-> IF u.ok THEN Saved(ls, LoadCoins(ls), u.value) ELSE ls,
        uncaught |-> IF u.ok THEN "none" ELSE u.value.name]

\* The page is loaded again: a new process start on the items in store.
Reload ==
    /\ gameState' = "START"
    /\ isGuardianMode' = FALSE
    /\ escapedEnemies' = 0
    /\ score' = 0
    /\ sessionCoins' = 0
    /\ lives' = 3
    /\ playerHits' = 0
    /\ level' = 1
    /\ achievements' = {}
    /\ totalCoins' = Booted(localStorage).totalCoins
    /\ upgrades' = Booted(localStorage).upgrades
    /\ unlockedAchievement' = "null"
    /\ engine' = InitEngine
    /\ loop' = <<>>
    /\ localStorage' = Booted(localStorage).localStorage
    /\ uncaught' = Booted(localStorage).uncaught

\* ---------------------------------------------------------- specifications
InitWith(coins, ups) ==
    /\ gameState = "START"
    /\ isGuardianMode = FALSE
    /\ escapedEnemies = 0
    /\ score = 0
    /\ sessionCoins = 0
    /\ lives = 3
    /\ playerHits = 0
    /\ level = 1
    /\ achievements = {}
    /\ totalCoins \in coins
    /\ upgrades \in ups
    /\ unlockedAchievement = "null"
    /\ engine = InitEngine
    /\ loop = <<>>
    /\ localStorage =
           Saved([tina_coins |-> IF totalCoins = 0 THEN <<>> ELSE NumberText(totalCoins),
                  karl_coins |-> <<>>, karl_upgrades |-> <<>>],
                 totalCoins, upgrades)
    /\ uncaught = "none"

\* The inputs explored by the default specification: a normal session at
\* level 1 (no coins for a guardian start), the player shooting, touching and
\* letting pass BASIC and HEAVY enemies.
Play ==
    [freeScore |-> 0, freeFrame |-> 0, maxFrames |-> MaxFrames, grindRoll |-> "r55",
     grab |-> FALSE, wear |-> FALSE, wearFrom |-> 0,
     maxBullets |-> MaxBullets, maxPowerUps |-> MaxPowerUps, guardian |-> BOOLEAN,
     fire |-> BOOLEAN, rolls |-> {"r75", "low"}, events |-> MaxEvents,
     shoot |-> TRUE, contact |-> TRUE, esc |-> TRUE, coin |-> FALSE,
     collect |-> TRUE, puOut |-> TRUE,
     puRolls |-> {"SHIELD", "TRIPLE_SHOT"}, pause |-> {0},
     maxScore |-> MaxScore, maxLevel |-> 2 * BossEvery, secs |-> {0},
     log |-> FALSE, early |-> EarlyFrames]

Init == InitWith({0}, {DefaultUpgrades})

Next ==
    \/ Start(Play)
    \/ Restart
    \/ TogglePause(Play)
    \/ Quit
    \/ OpenUpgrade
    \/ CloseUpgrade
    \/ Idle(Play)
    \/ Tick(Play)

Spec == Init /\ [][Next]_vars

\* A normal session played by the script up to level 3, where every enemy
\* may shoot; then the player neither fires nor touches an enemy, and enemy
\* bullets hit or miss.
Armor ==
    [Play EXCEPT !.freeScore = 2 * LevelScore + 200, !.maxScore = 2 * LevelScore + 200,
                 !.maxFrames = ArmorFrames, !.guardian = {FALSE},
                 !.fire = {FALSE}, !.rolls = {"low"}, !.contact = FALSE, !.pause = {}]

NextArmor == Start(Armor) \/ Idle(Armor) \/ Tick(Armor) \/ LevelUpTimeout

SpecArmor == Init /\ [][NextArmor]_vars

\* A normal session played by the script up to score 6000 at level 3, the
\* threshold of level 4; then the player shoots BASIC enemies, which shoot
\* back, and may pause once, quit and start again.
Level ==
    [Play EXCEPT !.freeScore = 3 * LevelScore - 100, !.maxScore = 3 * LevelScore + 200,
                 !.maxFrames = LevelFrames, !.guardian = {FALSE},
                 !.rolls = {"low"}, !.contact = FALSE, !.pause = {LevelPause}]

NextLevel ==
    \/ Start(Level)
    \/ TogglePause(Level)
    \/ Quit
    \/ Idle(Level)
    \/ Tick(Level)
    \/ LevelUpTimeout

SpecLevel == Init /\ [][NextLevel]_vars

\* The coins of one guardian start are in store.
InitRich == InitWith({GuardianCost}, {DefaultUpgrades})

\* A normal or a guardian session played by the script up to level 3, the
\* scripted player having shot a shield; then the player neither fires nor
\* dodges: enemies shoot, touch the player or leave.
Shield ==
    [Play EXCEPT !.freeScore = 2 * LevelScore + 200, !.maxScore = 2 * LevelScore + 200,
                 !.maxFrames = ShieldFrames, !.grab = TRUE,
                 !.fire = {FALSE}, !.rolls = {"low"}, !.pause = {}]

NextShield == Start(Shield) \/ Idle(Shield) \/ Tick(Shield) \/ LevelUpTimeout

SpecShield == InitRich /\ [][NextShield]_vars

\* A normal or a guardian session played by the script up to level 3 and then
\* letting every enemy pass up to frame GuardianFrom; from there enemies shoot,
\* touch the player or leave, the player may pause once and quit, and the
\* result of a guardian session is acknowledged.
Guardian ==
    [Play EXCEPT !.freeScore = 2 * LevelScore + 200, !.maxScore = 2 * LevelScore + 200,
                 !.freeFrame = GuardianFrom, !.maxFrames = GuardianFrames,
                 !.fire = {FALSE}, !.rolls = {"low"}, !.pause = {GuardianPause}]

NextGuardian ==
    \/ Start(Guardian)
    \/ TogglePause(Guardian)
    \/ Quit
    \/ AckGuardian(Guardian)
    \/ Idle(Guardian)
    \/ Tick(Guardian)
    \/ LevelUpTimeout

SpecGuardian == InitRich /\ [][NextGuardian]_vars

\* A normal session played by the script up to level 10; the boss appears
\* and the player shoots or touches it; then the script wears the boss down,
\* and the player shoots it dead, up to level 11, and may pause, quit and
\* start again.
Boss ==
    [Play EXCEPT !.freeScore = 9 * LevelScore + 200,
                 !.maxScore = 9 * LevelScore + 300 + BossScore,
                 !.maxLevel = BossEvery + 1,
                 !.wear = TRUE, !.wearFrom = BossWear, !.maxFrames = BossFrames,
                 !.maxPowerUps = BossPowerUps, !.collect = FALSE, !.puOut = FALSE,
                 !.guardian = {FALSE}, !.rolls = {"low"}, !.pause = {BossPause}]

NextBoss ==
    \/ Start(Boss)
    \/ TogglePause(Boss)
    \/ Quit
    \/ Idle(Boss)
    \/ Tick(Boss)
    \/ LevelUpTimeout

SpecBoss == Init /\ [][NextBoss]_vars

\* A normal session at level 1 with the coins of one guardian start in store:
\* the player shoots, touches and lets pass BASIC enemies until the last life
\* is lost, and restarts; toasts time out.
Over ==
    [Play EXCEPT !.guardian = {FALSE}, !.rolls = {"low"}, !.puRolls = {"SHIELD"},
                 !.pause = {}]

NextOver ==
    \/ Start(Over)
    \/ Restart
    \/ Idle(Over)
    \/ Tick(Over)
    \/ ToastTimeout

SpecOver == InitRich /\ [][NextOver]_vars

\* A normal session at level 1 in which the effect's cleanup may come after
\* the next animation frame: the player shoots or touches BASIC enemies.
Loop ==
    [Play EXCEPT !.guardian = {FALSE}, !.rolls = {"low"}, !.puRolls = {"SHIELD"},
                 !.esc = FALSE, !.pause = {}]

NextLoop ==
    \/ Start(Loop)
    \/ Idle(Loop)
    \/ TickDeferred(Loop)
    \/ StaleTick
    \/ FlushEffects

SpecLoop == Init /\ [][NextLoop]_vars

\* A record of upgrades bought earlier.
Bought == [DefaultUpgrades EXCEPT !.maxLives = 4, !.bulletPower = 3]

\* A text of 'karl_upgrades' cut short, and one of an object without most of
\* the fields.
CutShort == SubSeq(JsonStringify(Bought), 1, 8)
Lacking == JsonStringify([maxLives |-> 4])

\* The items in store at a process start: coins under the key read or none,
\* and no upgrades, a written record, or a text the program did not write.
Stores ==
    [tina_coins : {<<>>, NumberText(StoreCoins)},
     karl_coins : {<<>>},
     karl_upgrades : {<<>>, JsonStringify(Bought), CutShort, Lacking}]

InitStore ==
    \E ls \in Stores :
        /\ gameState = "START"
        /\ isGuardianMode = FALSE
        /\ escapedEnemies = 0
        /\ score = 0
        /\ sessionCoins = 0
        /\ lives = 3
        /\ playerHits = 0
        /\ level = 1
        /\ achievements = {}
        /\ totalCoins = Booted(ls).totalCoins
        /\ upgrades = Booted(ls).upgrades
        /\ unlockedAchievement = "null"
        /\ engine = InitEngine
        /\ loop = <<>>
        /\ localStorage = Booted(ls).localStorage
        /\ uncaught = Booted(ls).uncaught

\* App is mounted on a record with every field.
Complete == uncaught = "none" /\ DOMAIN upgrades = Items

\* Process starts on the items in store, purchases of lives and bullet power,
\* and a normal session at level 1 in which the player shoots BASIC enemies,
\* which may drop a coin, and shoots the coin; the page is loaded again at
\* any moment.  What the program does on a record lacking fields is not
\* explored.
Store ==
    [Play EXCEPT !.guardian = {FALSE}, !.rolls = {"low"}, !.puRolls = {"SHIELD"},
                 !.contact = FALSE, !.esc = FALSE, !.coin = TRUE, !.pause = {},
                 !.maxFrames = StoreFrames]

StoreItems == {"maxLives", "bulletPower"}

NextStore ==
    \/ Reload
    \/ Complete /\ OpenUpgrade
    \/ CloseUpgrade
    \/ \E item \in StoreItems : Purchase(item)
    \/ Complete /\ Start(Store)
    \/ Idle(Store)
    \/ Tick(Store)

SpecStore == InitStore /\ [][NextStore]_vars

\* A record of upgrades at or one step below their caps.
NearCap ==
    [maxLives |-> 10, tripleShotLevel |-> 2, fireRate |-> 80, moveSpeed |-> 15,
     bulletPower |-> 9, armorStrength |-> 15]

InitShop ==
    \/ InitWith({ShopCoins, TripleCoins}, {DefaultUpgrades})
    \/ InitWith({NearCapCoins}, {NearCap})

\* Purchases of every upgrade and guardian sessions: the script lets every
\* enemy pass up to frame ShopFrom; from there the player shoots BASIC
\* enemies, which may drop a coin, shoots the coins or lets enemies pass,
\* and the result is acknowledged at once or a minute later.  Guardian
\* starts are explored from at most ShopCoins coins.
Shop ==
    [Play EXCEPT !.guardian = {TRUE}, !.rolls = {"low"}, !.puRolls = {"SHIELD"},
                 !.contact = FALSE, !.coin = TRUE, !.pause = {},
                 !.freeFrame = ShopFrom, !.maxFrames = ShopFrames,
                 !.secs = {ShopSecs, ShopSecs + 60}]

NextShop ==
    \/ OpenUpgrade
    \/ CloseUpgrade
    \/ \E item \in Items : Purchase(item)
    \/ totalCoins <= ShopCoins /\ Start(Shop)
    \/ Idle(Shop)
    \/ Tick(Shop)
    \/ AckGuardian(Shop)

SpecShop == InitShop /\ [][NextShop]_vars

\* A normal or a guardian session at level 1 while the minutes pass: the
\* player shoots or touches BASIC enemies; toasts time out.
Hero ==
    [Play EXCEPT !.rolls = {"low"}, !.puRolls = {"SHIELD"}, !.esc = FALSE,
                 !.pause = {}, !.maxFrames = HeroFrames]

NextHero ==
    \/ Start(Hero)
    \/ Idle(Hero)
    \/ Tick(Hero)
    \/ Minute
    \/ ToastTimeout

SpecHero == InitRich /\ [][NextHero]_vars

\* The triple shot bought to its last level: every shot is a salvo of three.
InitSalvo == InitWith({0}, {[DefaultUpgrades EXCEPT !.tripleShotLevel = 2]})

\* The first frames of a normal session at level 1, in which no enemy reaches
\* the bottom yet: the player fires salvos of three bullets at BASIC and HEAVY
\* enemies, which may drop a coin, or touches them, and shoots the coins; the
\* log of each frame is kept.
Salvo ==
    [Play EXCEPT !.log = TRUE, !.guardian = {FALSE}, !.puRolls = {"SHIELD"},
                 !.esc = FALSE, !.coin = TRUE, !.pause = {},
                 !.maxBullets = SalvoBullets,
                 !.events = SalvoEvents, !.maxFrames = SalvoFrames]

NextSalvo == Start(Salvo) \/ Idle(Salvo) \/ Tick(Salvo)

SpecSalvo == InitSalvo /\ [][NextSalvo]_vars

\* The session of SpecBoss played with salvos of three bullets: the script
\* hits with the first bullet of each salvo, and the player then shoots the
\* worn boss, which holds its fire, with one bullet or with two of a salvo.
BossSalvo ==
    [Boss EXCEPT !.maxBullets = 2 * SalvoBullets, !.events = SalvoEvents,
                 !.maxPowerUps = 2 * BossPowerUps, !.pause = {},
                 !.maxScore = 9 * LevelScore + 300 + 2 * BossScore,
                 !.shoot = FALSE, !.contact = FALSE]

NextBossSalvo ==
    \/ Start(BossSalvo)
    \/ Idle(BossSalvo)
    \/ Tick(BossSalvo)
    \/ LevelUpTimeout

SpecBossSalvo == InitSalvo /\ [][NextBossSalvo]_vars

\* A normal session played by the script up to score 7900 at level 4, short
\* of the threshold of level 5; then the player shoots BASIC enemies, which
\* shoot back, or touches them.
Untouched ==
    [Level EXCEPT !.freeScore = 4 * LevelScore - 100,
                  !.maxScore = 4 * LevelScore + 200,
                  !.maxFrames = UntouchedFrames, !.contact = TRUE, !.pause = {}]

NextUntouched ==
    \/ Start(Untouched)
    \/ Idle(Untouched)
    \/ Tick(Untouched)
    \/ LevelUpTimeout

SpecUntouched == Init /\ [][NextUntouched]_vars

\* A process start without coins or with the coins of one guardian start, on
\* the default upgrades or on upgrades bought earlier.
InitSession == InitWith({0, GuardianCost}, {DefaultUpgrades, Bought})

\* Every button of the overlays: the first session of the process, normal or
\* guardian, lets every enemy pass up to frame ShopFrom; from there enemies
\* touch the player or leave, the player may pause once and then resume or
\* quit, the last life of a normal session is lost and the session restarted,
\* the fortieth enemy escapes a guardian session and the result is
\* acknowledged.  One start from the START overlay is explored per process.
Session ==
    [Play EXCEPT !.rolls = {"low"}, !.puRolls = {"SHIELD"}, !.fire = {FALSE},
                 !.collect = FALSE, !.puOut = FALSE,
                 !.freeFrame = ShopFrom, !.maxFrames = SessionFrames,
                 !.pause = {SessionPause}, !.secs = {ShopSecs}]

NextSession ==
    \/ engine.frameCount = 0 /\ Start(Session)
    \/ Restart
    \/ TogglePause(Session)
    \/ Quit
    \/ OpenUpgrade
    \/ CloseUpgrade
    \/ AckGuardian(Session)
    \/ Idle(Session)
    \/ Tick(Session)

SpecSession == InitSession /\ [][NextSession]_vars

\* The session of Boss with the frames around every due frame of its explored
\* part run one by one, so that the boss can die in the frame before the
\* spawn timer fires; the script wears the boss down from its first frame,
\* nothing hits the player, and the session goes on to level 12.
BossEarly ==
    [Boss EXCEPT !.early = 1, !.wearFrom = 0, !.maxLevel = BossEvery + 2,
                 !.shoot = FALSE, !.contact = FALSE, !.esc = FALSE, !.pause = {}]

NextBossEarly ==
    \/ Start(BossEarly)
    \/ Idle(BossEarly)
    \/ Tick(BossEarly)
    \/ LevelUpTimeout

SpecBossEarly == Init /\ [][NextBossEarly]_vars

\* ------------------------------------------------------------- properties
Listed(type) == \E i \in 1..Len(engine.enemies) : engine.enemies[i].type = type

\* C1: after every tick every enemy still in the enemy list has
\* 0 < hp <= maxHp: an enemy the player's bullets bring to hp <= 0 has left
\* the list when the tick ends, and hp never rises above maxHp.
C1_EnemyHp ==
    \A i \in 1..Len(engine.enemies) :
        /\ engine.enemies[i].hp > 0
        /\ engine.enemies[i].hp <= engine.enemies[i].maxHp

\* An enemy has been shot dead and a damaged one is still listed.
C1_Witness ==
    /\ engine.enemiesKilled > 0
    /\ \E i \in 1..Len(engine.enemies) : engine.enemies[i].hp < engine.enemies[i].maxHp

\* A step in which an enemy bullet hits the player: only that sets
\* player.invulnerable to 60, and the frame's end takes one off.
HitByBullet ==
    /\ gameState = "PLAYING"
    /\ engine.invulnerable <= 0
    /\ engine'.invulnerable = InvulnBullet - 1

\* C2: 0 <= playerHits < armorStrength in every state; an enemy-bullet hit on
\* an unshielded, non-invulnerable player of a normal session that would
\* bring playerHits to armorStrength sets playerHits to 0 and takes exactly
\* one life in the same step; any other such hit adds exactly 1 to playerHits
\* and leaves lives unchanged.
C2_Armor ==
    /\ [](0 <= playerHits /\ playerHits < upgrades.armorStrength)
    /\ [][HitByBullet /\ ~engine.shield /\ ~isGuardianMode
          => IF playerHits + 1 >= upgrades.armorStrength
             THEN playerHits' = 0 /\ lives' = lives - 1
             ELSE playerHits' = playerHits + 1 /\ lives' = lives]_vars

\* The armor has just given way to an enemy bullet.
C2_Witness ==
    /\ ~isGuardianMode
    /\ playerHits = 0
    /\ lives = upgrades.maxLives - 1
    /\ engine.lostLifeThisRun
    /\ engine.invulnerable = InvulnBullet - 1

\* C3: lives are never negative; no state has lives = 0 while PLAYING or
\* PAUSED; in a normal session the step that takes lives from 1 to 0 also
\* sets GAMEOVER.
C3_Lives ==
    /\ [](lives >= 0 /\ (lives = 0 => gameState \notin {"PLAYING", "PAUSED"}))
    /\ [][~isGuardianMode /\ lives = 1 /\ lives' = 0 => gameState' = "GAMEOVER"]_vars

\* The last life of a normal session has been lost.
C3_Witness == ~isGuardianMode /\ lives = 0 /\ gameState = "GAMEOVER"

\* A step of the loop: one frame of update(), or several quiet ones.
FrameStep == gameState = "PLAYING" /\ engine'.frameCount > engine.frameCount

\* What a frame in which nothing touches the lists leaves of them.
QuietKeeps ==
    LET w == Update(World, Closure, QuietOracle)
        n == Len(engine.enemies)
    IN /\ w.level = level
       /\ Len(w.engine.enemies) >= n
       /\ SubSeq(w.engine.enemies, 1, n) = engine.enemies
       /\ w.engine.enemyBullets = engine.enemyBullets

\* C8: a tick that runs with score > level * 2000 adds exactly 1 to level and
\* ends with the enemy list and the enemy-bullet list empty; a tick that runs
\* with score <= level * 2000 (score = level * 2000 included) leaves level as
\* it is, starts no banner timeout and does not clear the lists: a frame in
\* which nothing else touches them keeps every enemy and enemy bullet.
C8_LevelUp ==
    /\ [][FrameStep =>
            IF score > level * LevelScore
            THEN /\ level' = level + 1
                 /\ engine'.enemies = <<>>
                 /\ engine'.enemyBullets = <<>>
            ELSE /\ level' = level
                 /\ engine'.levelUpTimers = engine.levelUpTimers]_vars
    /\ [](gameState = "PLAYING" /\ score <= level * LevelScore => QuietKeeps)

\* Level 4 has just been reached: the tick ran with score > 6000 and left the
\* lists empty.
C8_Witness ==
    /\ gameState = "PLAYING"
    /\ level = 4
    /\ score > 3 * LevelScore
    /\ engine.frameCount = LevelPause
    /\ engine.enemies = <<>> /\ engine.enemyBullets = <<>>

\* C9: within a session level never decreases; level is set back to 1 only
\* by startGame (a step from START or GAMEOVER to PLAYING).
C9_LevelMonotonic ==
    [][\/ level' >= level
       \/ /\ level' = 1
          /\ gameState \in {"START", "GAMEOVER"}
          /\ gameState' = "PLAYING"]_vars

\* A session started after one that had reached level 4 and was quit with
\* its level-up banner still pending.
C9_Witness ==
    /\ gameState = "PLAYING"
    /\ level = 1
    /\ engine.frameCount = 0
    /\ engine.levelUpTimers > 0

\* A step in which an enemy touches the player: only that sets
\* player.invulnerable to 120.
HitByEnemy ==
    /\ gameState = "PLAYING"
    /\ engine.invulnerable <= 0
    /\ engine'.invulnerable = InvulnContact - 1

\* C6: in a guardian session no step changes lives or playerHits (the steps
\* with an enemy-bullet hit or an enemy contact included), the session state
\* never becomes GAMEOVER, and PLAYING is left only to PAUSED or
\* GUARDIAN_RESULT.
C6_Guardian ==
    [][isGuardianMode /\ gameState \in {"PLAYING", "PAUSED"}
       => /\ lives' = lives
          /\ playerHits' = playerHits
          /\ gameState' # "GAMEOVER"
          /\ gameState = "PLAYING"
               => gameState' \in {"PLAYING", "PAUSED", "GUARDIAN_RESULT"}]_vars

\* A guardian session that never had a shield has just been hit by an enemy
\* bullet.
C6_Witness ==
    /\ isGuardianMode
    /\ gameState = "PLAYING"
    /\ engine.shieldsPicked = 0
    /\ engine.invulnerable = InvulnBullet - 1
    /\ lives = GuardianLives
    /\ playerHits = 0

\* Whether the frame's spawn timer pushes an enemy.
Spawns ==
    IF engine.enemySpawnTimer + 1 > SpawnRate(level) /\ ~engine.bossActive THEN 1 ELSE 0

\* The enemies that left the list in a frame without a level-up.
Gone == Len(engine.enemies) + Spawns - Len(engine'.enemies)

\* C7: GUARDIAN_RESULT is entered only by a PLAYING guardian session whose
\* escape counter passes from below 40 to 40; passing 40 always enters it, so
\* no guardian session plays on with 40 escapes; a guardian start sets the
\* counter to 0; the counter changes in no other step than a guardian start
\* and a frame of a guardian session, where it rises by one per enemy that
\* left at the bottom (every enemy that left the list, when none was shot or
\* touched).
C7_GuardianResult ==
    /\ [][gameState' = "GUARDIAN_RESULT" /\ gameState # "GUARDIAN_RESULT"
          => /\ isGuardianMode /\ gameState = "PLAYING"
             /\ escapedEnemies < EscapeLimit
             /\ escapedEnemies' >= EscapeLimit]_vars
    /\ [][isGuardianMode /\ escapedEnemies < EscapeLimit /\ escapedEnemies' >= EscapeLimit
          => gameState' = "GUARDIAN_RESULT"]_vars
    /\ [](isGuardianMode /\ gameState \in {"PLAYING", "PAUSED"}
          => escapedEnemies < EscapeLimit)
    /\ [][totalCoins' = totalCoins - GuardianCost
          => escapedEnemies' = 0 /\ isGuardianMode']_vars
    /\ [][escapedEnemies' # escapedEnemies
          => \/ totalCoins' = totalCoins - GuardianCost
             \/ /\ FrameStep /\ isGuardianMode
                /\ escapedEnemies' > escapedEnemies
                /\ escapedEnemies' - escapedEnemies
                     <= IF score > level * LevelScore
                        THEN Len(engine.enemies) + Spawns ELSE Gone]_vars
    /\ [][FrameStep /\ isGuardianMode /\ score <= level * LevelScore
          /\ engine'.enemiesKilled = engine.enemiesKilled /\ ~HitByEnemy
          => escapedEnemies' - escapedEnemies = Gone]_vars

\* The fortieth enemy has escaped a guardian session.
C7_Witness ==
    /\ isGuardianMode
    /\ gameState = "GUARDIAN_RESULT"
    /\ escapedEnemies = EscapeLimit

\* C10: when an enemy bullet or an enemy hits a non-invulnerable player whose
\* shield is up, in a normal or a guardian session, the hit takes the shield
\* down (it is down when the frame ends unless a shield is picked up later in
\* the same frame) and leaves lives, playerHits and lostLifeThisRun unchanged.
C10_Shield ==
    [][(HitByBullet \/ HitByEnemy) /\ engine.shield
       => /\ ~engine'.shield \/ engine'.shieldsPicked > engine.shieldsPicked
          /\ lives' = lives
          /\ playerHits' = playerHits
          /\ engine'.lostLifeThisRun = engine.lostLifeThisRun]_vars

\* The shield of a normal session has just stopped an enemy bullet.
C10_Witness ==
    /\ ~isGuardianMode
    /\ gameState = "PLAYING"
    /\ engine.shieldsPicked = 1
    /\ ~engine.shield
    /\ engine.invulnerable = InvulnBullet - 1
    /\ lives = upgrades.maxLives
    /\ playerHits = 0
    /\ ~engine.lostLifeThisRun

\* C4: in every state the enemy list holds at most one enemy of type BOSS.
C4_OneBoss ==
    Cardinality({i \in 1..Len(engine.enemies) : engine.enemies[i].type = "BOSS"}) <= 1

\* A boss is in the list of a session started after one in which a boss had
\* been shot dead.
C4_Witness ==
    /\ Listed("BOSS")
    /\ "boss_slayer" \in achievements

\* C5: a frame that starts with a BOSS in the list, or with the bossActive
\* flag up, adds no enemy (every enemy listed after it was listed before it);
\* a BOSS enters the list only in a frame that starts with level a multiple
\* of 10 and an empty enemy list.
C5_BossSpawn ==
    /\ [][FrameStep /\ (Listed("BOSS") \/ engine.bossActive)
          => /\ Len(engine'.enemies) <= Len(engine.enemies)
             /\ \A i \in 1..Len(engine'.enemies) :
                  \E j \in 1..Len(engine.enemies) :
                     /\ engine.enemies[j].type = engine'.enemies[i].type
                     /\ engine.enemies[j].hp >= engine'.enemies[i].hp]_vars
    /\ [][(\E i \in 1..Len(engine'.enemies) : engine'.enemies[i].type = "BOSS")
          /\ ~Listed("BOSS")
          => /\ FrameStep
             /\ level % BossEvery = 0
             /\ engine.enemies = <<>>]_vars

\* The spawn timer has just fired with a damaged BOSS in the list.
C5_Witness ==
    /\ engine.enemySpawnTimer = 0
    /\ engine.bossActive
    /\ \E i \in 1..Len(engine.enemies) :
         /\ engine.enemies[i].type = "BOSS"
         /\ engine.enemies[i].hp < engine.enemies[i].maxHp

Multipliers == {2, 3, 4}

\* What the bullet pass of enemy k's callback does when exactly bullet bi
\* overlaps it, the player having just fired, under multiplier bp.
OneHit(k, bi, bp) ==
    LET w0 == [World EXCEPT !.engine.bullets = TagList(Append(@, NewBullet)),
                            !.engine.enemies = TagList(@)]
        c == [Closure EXCEPT !.upgrades.bulletPower = bp]
        e == w0.engine.enemies[k]
        b == w0.engine.bullets[bi]
        st == BulletsOnEnemy([w |-> w0, e |-> e], c, k, 1,
                             [QuietOracle EXCEPT !.hit = {<<k, bi>>}])
        h1 == e.hp - b.power * bp
    IN /\ st.e.hp = h1
       /\ st.w.engine.bullets = Splice(w0.engine.bullets, bi)
       /\ h1 > 0 => /\ st.w.engine.enemies = [w0.engine.enemies EXCEPT ![k].hp = h1]
                    /\ st.w.score = score
                    /\ st.w.engine.enemiesKilled = engine.enemiesKilled
                    /\ st.w.engine.bossActive = engine.bossActive

\* C12: a player bullet of power p that overlaps an enemy with hp h leaves the
\* enemy with hp h - p * bulletPower and leaves the bullet list; when that is
\* positive the enemy stays listed and score, kill counter and bossActive are
\* as before.  In a frame that only damages the listed boss, the damage is a
\* multiple of p * bulletPower and score, kill counter and flag are kept.
C12_BulletHit ==
    /\ [](\A k \in 1..Len(engine.enemies) : \A bi \in 1..(Len(engine.bullets) + 1) :
            \A bp \in Multipliers : OneHit(k, bi, bp))
    /\ [][FrameStep /\ Listed("BOSS") /\ Len(engine'.enemies) = 1
          /\ engine'.enemies[1].type = "BOSS"
          /\ engine'.enemies[1].hp < engine.enemies[1].hp
          => /\ (engine.enemies[1].hp - engine'.enemies[1].hp)
                  % (NewBullet.power * upgrades.bulletPower) = 0
             /\ score' = score
             /\ engine'.enemiesKilled = engine.enemiesKilled
             /\ engine.bossActive /\ engine'.bossActive]_vars

\* The boss, still active, has been shot down to 60 hit points.
C12_Witness ==
    /\ engine.bossActive
    /\ Len(engine.enemies) = 1
    /\ engine.enemies[1].type = "BOSS"
    /\ engine.enemies[1].hp = 60 * HpScale

\* C13: from START, startGame(guardian) with fewer than 450 lifetime coins
\* changes nothing; with at least 450 it takes exactly 450, raises the
\* guardian flag, sets the escape counter to 0 and moves to PLAYING; and no
\* guardian session starts from START in any other way.
C13_GuardianStart ==
    /\ [](gameState = "START" /\ totalCoins < GuardianCost
          => ~ENABLED (StartGame(TRUE) /\ vars' # vars))
    /\ [](gameState = "START" /\ totalCoins >= GuardianCost
          => /\ ENABLED StartGame(TRUE)
             /\ ~ENABLED (StartGame(TRUE)
                          /\ ~(/\ totalCoins' = totalCoins - GuardianCost
                               /\ isGuardianMode'
                               /\ escapedEnemies' = 0
                               /\ gameState' = "PLAYING")))
    /\ [][gameState = "START" /\ gameState' = "PLAYING" /\ isGuardianMode'
          => /\ totalCoins >= GuardianCost
             /\ totalCoins' = totalCoins - GuardianCost
             /\ escapedEnemies' = 0]_vars

\* A guardian session has been paid for and ended, and the reward leaves
\* the lifetime coins short of the next entry.
C13_Witness ==
    /\ gameState = "START"
    /\ isGuardianMode
    /\ escapedEnemies >= EscapeLimit
    /\ totalCoins > 0
    /\ totalCoins < GuardianCost

\* C14: update() runs only while the session state is PLAYING: the frame
\* counter, which every update() raises, rises in no step that starts in
\* another state, the frame requested before the state changed included.
C14_TickOnlyPlaying ==
    [][engine'.frameCount > engine.frameCount => gameState = "PLAYING"]_vars

\* The player, the entity lists, the spawn timers and the level-up flag.
Frozen(e) ==
    <<e.shield, e.invulnerable, e.tripleShot, e.bullets, e.enemyBullets, e.enemies,
      e.powerUps, e.enemySpawnTimer, e.powerUpSpawnTimer, e.levelUpPending>>

\* C15: a step that starts and ends in PAUSED, in GAMEOVER or in
\* GUARDIAN_RESULT leaves the player, the bullet, enemy-bullet, enemy and
\* power-up lists, the spawn timers and the level-up flag as they are.
C15_FrozenWorld ==
    [][(gameState \in {"PAUSED", "GAMEOVER", "GUARDIAN_RESULT"}
        /\ gameState' = gameState)
       => (Frozen(engine') = Frozen(engine))]_vars

\* The state the restart is said to leave.
Reinitialized ==
    /\ gameState' = "PLAYING"
    /\ score' = 0 /\ sessionCoins' = 0 /\ level' = 1 /\ playerHits' = 0
    /\ lives' = upgrades'.maxLives
    /\ ~engine'.shield /\ engine'.invulnerable = 0
    /\ engine'.bullets = <<>> /\ engine'.enemyBullets = <<>>
    /\ engine'.enemies = <<>> /\ engine'.powerUps = <<>>
    /\ engine'.enemiesKilled = 0
    /\ engine'.shieldsPicked = 0 /\ engine'.tripleShotsPicked = 0
    /\ ~engine'.bossActive /\ ~engine'.lostLifeThisRun
    /\ engine'.enemySpawnTimer = 0 /\ engine'.powerUpSpawnTimer = 0

\* C16: in GAMEOVER the restart button always leaves the session PLAYING
\* with score 0, session coins 0, level 1, playerHits 0, lives = maxLives, the
\* player without shield or invulnerability, the lists empty, the counters 0,
\* the flags down and both spawn timers at 0.
C16_Restart ==
    gameState = "GAMEOVER" => ~ENABLED (Restart /\ ~Reinitialized)

\* C17: loading the persisted upgrades never fails: App is never left with an
\* uncaught error or with a record lacking fields, and a process start on a
\* missing or malformed 'karl_upgrades' item (unparseable, or an object
\* lacking fields) is mounted with the default upgrades.
Malformed(text) ==
    \/ ~JsonParse(text).ok
    \/ DOMAIN JsonParse(text).value # Items

C17_LoadDefaults ==
    /\ uncaught = "none"
    /\ DOMAIN upgrades = Items
    /\ (localStorage.karl_upgrades = <<>> \/ Malformed(localStorage.karl_upgrades))
          => /\ Booted(localStorage).uncaught = "none"
             /\ Booted(localStorage).upgrades = DefaultUpgrades

\* C18: the coins and the upgrades record of a mounted App, which the save
\* effect has written back, are the coins and the record a process start
\* loads from the items now in store.
C18_RoundTrip ==
    Complete => /\ Booted(localStorage).totalCoins = totalCoins
                /\ Booted(localStorage).upgrades = upgrades

\* C19: in the UPGRADE overlay a purchase of an upgrade whose price is above
\* the lifetime coins, or which is at its cap, changes neither the coins nor
\* the upgrades record; a step that changes one of the two takes exactly the
\* price on the button's label off the coins and moves exactly that upgrade
\* by one step; and the lifetime coins are never negative, whatever is
\* bought, entered, picked up or rewarded.
StepOf(item) ==
    CASE item = "fireRate" -> 0 - 20
      [] item = "tripleShotLevel" -> 2
      [] OTHER -> 1

Bought1(item) ==
    /\ ~Maxed(item, upgrades)
    /\ totalCoins >= Label(item, upgrades)
    /\ totalCoins' = totalCoins - Label(item, upgrades)
    /\ upgrades' = [upgrades EXCEPT ![item] = @ + StepOf(item)]

C19_Purchase ==
    /\ [](totalCoins >= 0)
    /\ [](\A item \in Items :
            (gameState = "UPGRADE"
             /\ (totalCoins < Label(item, upgrades) \/ Maxed(item, upgrades)))
            => ~ENABLED (Purchase(item)
                         /\ <<totalCoins, upgrades>>' # <<totalCoins, upgrades>>))
    /\ [][(gameState = "UPGRADE"
           /\ <<totalCoins, upgrades>>' # <<totalCoins, upgrades>>)
          => (\E item \in Items : Bought1(item))]_vars

\* The last half point of bullet power has been bought for 2250 coins, the
\* price of 4.5 x 500: nothing is left and every button is disabled, the
\* fire-rate step for its price of 2000, the others at their caps.
C19_Witness ==
    /\ gameState = "UPGRADE"
    /\ upgrades = [NearCap EXCEPT !.bulletPower = 5 * HpScale]
    /\ totalCoins = 0
    /\ \A item \in Items : Disabled(item, totalCoins, upgrades)
    /\ ~Maxed("fireRate", upgrades)

\* C20: a frame of a guardian session played more than three minutes after
\* its start leaves guardian_hero unlocked, and no step outside a guardian
\* session unlocks it.
C20_GuardianHero ==
    /\ [][(FrameStep /\ gameState = "PLAYING" /\ isGuardianMode
           /\ engine.elapsed >= 3)
          => "guardian_hero" \in achievements']_vars
    /\ [][("guardian_hero" \in achievements' /\ ~isGuardianMode')
          => "guardian_hero" \in achievements]_vars

\* The points the help text takes off for an enemy that escapes.
EscapePenalty == 50

\* C21: every enemy that escapes past the bottom of the playfield takes 50
\* points off the score: a frame of a guardian session that counts n escapes
\* and no kill leaves the score n * 50 lower.
C21_EscapePenalty ==
    [][FrameStep /\ isGuardianMode /\ escapedEnemies' > escapedEnemies
       /\ engine'.enemiesKilled = engine.enemiesKilled
       => score' = score - EscapePenalty * (escapedEnemies' - escapedEnemies)]_vars

\* C22: an enemy that touches an unshielded, non-invulnerable player of a
\* normal session is resolved by the armor as an enemy-bullet hit is: the
\* contact adds 1 to playerHits, and a life is lost, with playerHits back at
\* 0, only when playerHits reaches armorStrength.
C22_ContactArmor ==
    [][HitByEnemy /\ ~engine.shield /\ ~isGuardianMode
       => IF playerHits + 1 >= upgrades.armorStrength
          THEN playerHits' = 0 /\ lives' = lives - 1
          ELSE playerHits' = playerHits + 1 /\ lives' = lives]_vars

\* The entries of the last frame's log.
Entries == {engine.log[i] : i \in 1..Len(engine.log)}

\* How often the pass over `list' started the callback of the element
\* tagged t, and whether a splice of the frame took that element out.
Visits(list, t) ==
    Cardinality({i \in 1..Len(engine.log) :
                    engine.log[i] = Event(list, "visit", t, 0, 0)})
Removed(list, t) == \E ev \in Entries : ev.list = list /\ ev.gone = t

\* C23: removing an element during a pass never skips a neighbour: every
\* player bullet, enemy bullet, enemy and power-up that is in its list when
\* the list's pass starts and is not removed in the frame has its callback
\* (move and checks) run exactly once in that pass.
C23_NoSkip ==
    \A ev \in Entries :
        ev.did = "pass" =>
            \A t \in 1..ev.tag : ~Removed(ev.list, t) => Visits(ev.list, t) = 1

\* The log entries in which the death branch of enemy t ran (score award,
\* kill counter, splice).
Kills(t) ==
    {i \in 1..Len(engine.log) :
        /\ engine.log[i].list = "enemies"
        /\ engine.log[i].did = "kill"
        /\ engine.log[i].tag = t}

\* C24: each enemy is killed at most once: in every tick the death branch
\* (the award of the enemy's score and the kill counter's + 1) runs at most
\* once per enemy, however many player bullets overlap it; and once an enemy
\* has left the list (by contact or by a bullet) it takes no further bullet
\* and awards nothing.
C24_KillOnce ==
    \A i \in 1..Len(engine.log) :
        LET t == engine.log[i].gone IN
        engine.log[i].list = "enemies" /\ t > 0
        => /\ Cardinality(Kills(t)) <= 1
           /\ \A j \in (i + 1)..Len(engine.log) :
                /\ j \notin Kills(t)
                /\ ~(engine.log[j].list = "bullets" /\ engine.log[j].did = "hit"
                     /\ engine.log[j].by = t)

\* C25: an enemy leaves the enemy list only for a reason of its own: every
\* splice of the enemy pass (after a kill, a contact or an escape) takes out
\* the enemy whose callback made it, never another one.
C25_OwnRemoval ==
    \A ev \in Entries :
        ev.list = "enemies" /\ ev.did \in {"kill", "contact", "escape"} /\ ev.gone # 0
        => ev.gone = ev.tag

\* The log entries of the pickups of power-up t in `list': in "powerUps" the
\* effect and the splice of the power-up list, in "bullets" the bullet
\* consumed.
Pickups(list, t) ==
    {i \in 1..Len(engine.log) :
        /\ engine.log[i].list = list
        /\ engine.log[i].did = "collect"
        /\ (IF list = "bullets" THEN engine.log[i].by ELSE engine.log[i].tag) = t}

\* C26: each power-up is collected at most once: when player bullets overlap
\* a power-up in a tick, one bullet is consumed, the effect is applied once,
\* and that power-up and no other is spliced out of the list.
C26_CollectOnce ==
    \A ev \in Entries :
        ev.list = "powerUps" /\ ev.did = "collect"
        => /\ Cardinality(Pickups("powerUps", ev.tag)) = 1
           /\ Cardinality(Pickups("bullets", ev.tag)) = 1
           /\ ev.gone = ev.tag

\* C27: while PLAYING the timer spawns a power-up once every 600 ticks,
\* whatever the level: the frame in which the timer spawns (and starts again
\* from 0) is the 600th since the timer last started from 0.
C27_PowerUpPeriod ==
    [][FrameStep /\ engine'.powerUpSpawnTimer < engine.powerUpSpawnTimer
       => engine.powerUpSpawnTimer + 1 = PowerUpPeriod]_vars

\* max(15, 50 - 4 * level), the threshold of the enemy-spawn timer.
Threshold == IF 50 - 4 * level > 15 THEN 50 - 4 * level ELSE 15

\* What the timer step of a tick on this state does to the timer and to the
\* enemy list, whatever the type roll: spawnEnemy adds one enemy unless a boss
\* is active.
TimerStep ==
    \A r \in Rolls :
        LET w == SpawnStep(World, Closure, [QuietOracle EXCEPT !.roll = r])
            n == Len(engine.enemies)
        IN IF engine.enemySpawnTimer + 1 > Threshold
           THEN /\ w.engine.enemySpawnTimer = 0
                /\ IF engine.bossActive
                   THEN w.engine.enemies = engine.enemies
                   ELSE /\ Len(w.engine.enemies) = n + 1
                        /\ SubSeq(w.engine.enemies, 1, n) = engine.enemies
           ELSE /\ w.engine.enemySpawnTimer = engine.enemySpawnTimer + 1
                /\ w.engine.enemies = engine.enemies

\* C28: the enemy-spawn timer rises by exactly 1 per tick; spawnEnemy is
\* called in exactly the ticks in which the incremented timer exceeds
\* max(15, 50 - 4 * level), and such a tick ends with the timer at 0, also
\* when a boss is active and nothing is spawned; any other tick ends with the
\* timer one higher and at most at the threshold.
C28_SpawnTimer ==
    /\ [][FrameStep
          => LET n == engine'.frameCount - engine.frameCount IN
             IF n = 1 /\ engine.enemySpawnTimer + 1 > Threshold
             THEN engine'.enemySpawnTimer = 0
             ELSE /\ engine'.enemySpawnTimer = engine.enemySpawnTimer + n
                  /\ engine'.enemySpawnTimer <= Threshold]_vars
    /\ [](gameState = "PLAYING" => TimerStep)

\* At level 10, where the threshold is 15, the timer has just fired with the
\* boss active and damaged: nothing was spawned and the timer is at 0.
C28_Witness ==
    /\ gameState = "PLAYING"
    /\ level = BossEvery
    /\ Threshold = 15
    /\ engine.bossActive
    /\ engine.enemySpawnTimer = 0
    /\ Len(engine.enemies) = 1
    /\ engine.enemies[1].hp < engine.enemies[1].maxHp

\* The COIN power-ups in the power-up list of engine record e.
CoinsListed(e) ==
    Cardinality({i \in 1..Len(e.powerUps) : e.powerUps[i].type = "COIN"})

\* C29: the death of the BOSS, and only that, clears the boss-active flag,
\* adds exactly 10 COIN power-ups and unlocks boss_slayer.  A frame in which
\* the listed boss is shot dead (it is alone in the list, and no coin is
\* picked up in the sessions explored) counts one kill, awards the boss's
\* score once, adds 10 coins, clears the flag and unlocks boss_slayer; no
\* other step unlocks boss_slayer, and no other frame clears the flag.
C29_BossDeath ==
    /\ [][FrameStep /\ Listed("BOSS") /\ engine'.enemiesKilled > engine.enemiesKilled
          => /\ engine'.enemiesKilled = engine.enemiesKilled + 1
             /\ score' = score + BossScore
             /\ CoinsListed(engine') = CoinsListed(engine) + BossCoins
             /\ ~engine'.bossActive
             /\ "boss_slayer" \in achievements']_vars
    /\ [][\/ "boss_slayer" \in achievements' \ achievements
          \/ FrameStep /\ engine.bossActive /\ ~engine'.bossActive
          => /\ FrameStep
             /\ Listed("BOSS")
             /\ engine'.enemiesKilled > engine.enemiesKilled]_vars

\* This state, and this state with two more enemy bullets in the list (shot
\* by the enemies in the frame before).
UnderFire ==
    {World, [World EXCEPT !.engine.enemyBullets = PushN(@, NewBullet, 2)]}

\* The frames on world v in which any of the listed enemy bullets and enemies
\* overlap the player and nothing else happens.
Overlaps(v) ==
    {[QuietOracle EXCEPT !.ebHit = H, !.contact = C] :
        H \in SUBSET (1..Len(v.engine.enemyBullets)),
        C \in SUBSET (1..Len(v.engine.enemies))}

\* The hits on the player that the frame ending in world w resolved.
Resolved(w) ==
    {i \in 1..Len(w.engine.log) :
        \/ w.engine.log[i].did = "contact"
        \/ w.engine.log[i].list = "enemyBullets" /\ w.engine.log[i].did = "hit"}

\* What a frame on world v does under the overlaps of o.
Struck(v, o) ==
    LET w == Update(v, Closure, o)
        hits == Resolved(w)
    IN /\ Cardinality(hits) <= 1
       /\ v.engine.invulnerable > 0
            => /\ hits = {}
               /\ w = Update(v, Closure, QuietOracle)
       /\ \A i \in hits :
            LET ev == w.engine.log[i] IN
            /\ v.engine.invulnerable <= 0
            /\ IF ev.list = "enemyBullets"
               THEN /\ ev.tag \in o.ebHit
                    /\ ev.gone = ev.tag
                    /\ w.engine.invulnerable = InvulnBullet - 1
               ELSE /\ ev.tag \in o.contact
                    /\ w.engine.invulnerable = InvulnContact - 1
       /\ hits = {} => w.engine.invulnerable = Max(0, v.engine.invulnerable - 1)
       /\ w.lives >= v.lives - 1

\* C30: while the invulnerability countdown is above 0 no enemy-bullet hit
\* and no contact is resolved: a frame with overlaps leaves shield,
\* playerHits, lives and the lists as the same frame without them.  A
\* resolved hit sets the countdown to 60 (enemy bullet, which is spliced out)
\* or 120 (contact) before the frame's end takes 1 off; at most one hit is
\* resolved per tick; otherwise the countdown falls by 1 per tick and never
\* below 0.
C30_Invulnerable ==
    /\ [](engine.invulnerable >= 0)
    /\ [](gameState = "PLAYING" => \A v \in UnderFire : \A o \in Overlaps(v) : Struck(v, o))
    /\ [][FrameStep
          => LET n == engine'.frameCount - engine.frameCount IN
             IF engine.invulnerable > 0
             THEN /\ engine'.invulnerable = Max(0, engine.invulnerable - n)
                  /\ lives' = lives
                  /\ playerHits' = playerHits
                  /\ engine.shield => engine'.shield
             ELSE engine'.invulnerable \in {0, InvulnBullet - 1, InvulnContact - 1}]_vars

\* The player is invulnerable after a hit, with an enemy bullet and an enemy
\* in the lists.
C30_Witness ==
    /\ gameState = "PLAYING"
    /\ engine.invulnerable > 0
    /\ engine.invulnerable < InvulnBullet - 1
    /\ Len(engine.enemyBullets) > 0
    /\ Len(engine.enemies) > 0

\* The transitions of the session state the specification lists.
Listed31 ==
    {<<"START", "PLAYING">>, <<"PLAYING", "PAUSED">>, <<"PAUSED", "PLAYING">>,
     <<"PLAYING", "GAMEOVER">>, <<"PLAYING", "GUARDIAN_RESULT">>,
     <<"GAMEOVER", "PLAYING">>, <<"GUARDIAN_RESULT", "START">>,
     <<"START", "UPGRADE">>, <<"UPGRADE", "START">>}

\* A step that changes the session state makes a transition of the set T,
\* GAMEOVER being entered by a normal and GUARDIAN_RESULT by a guardian
\* session only.
ChangeIn(T) ==
    gameState' # gameState
    => /\ <<gameState, gameState'>> \in T
       /\ gameState' = "GAMEOVER" => ~isGuardianMode
       /\ gameState' = "GUARDIAN_RESULT" => isGuardianMode

\* togglePause changes nothing in a state other than PLAYING and PAUSED.
ToggleIdle ==
    gameState \notin {"PLAYING", "PAUSED"}
    => ~ENABLED (TogglePause(Session) /\ gameState' # gameState)

\* C31: every change of the session state is one of START->PLAYING,
\* PLAYING<->PAUSED, PLAYING->GAMEOVER (normal session only),
\* PLAYING->GUARDIAN_RESULT (guardian session only), GAMEOVER->PLAYING,
\* GUARDIAN_RESULT->START, START->UPGRADE, UPGRADE->START, or the quit of a
\* paused session, PAUSED->START: PAUSED is left only to PLAYING or START;
\* and togglePause has no effect in any state other than PLAYING and PAUSED.
C31_Transitions ==
    /\ [][ChangeIn(Listed31 \cup {<<"PAUSED", "START">>})]_vars
    /\ []ToggleIdle

\* C31 as stated, without PAUSED->START: PAUSED is left only to PLAYING.
C31_AsStated ==
    /\ [][ChangeIn(Listed31)]_vars
    /\ []ToggleIdle

\* A paused session has been quit: the START overlay is up over the world of
\* the session.
C31_Witness ==
    /\ gameState = "START"
    /\ engine.frameCount = SessionPause
    /\ Len(engine.enemies) > 0

\* C37: restarting from GAMEOVER starts a normal session and costs nothing:
\* whatever the lifetime coins, the restart button leaves the session PLAYING
\* with the lifetime coins unchanged, the guardian flag down and lives at
\* maxLives.
C37_RestartNormal ==
    gameState = "GAMEOVER"
    => ~ENABLED (Restart /\ ~(/\ gameState' = "PLAYING"
                              /\ totalCoins' = totalCoins
                              /\ ~isGuardianMode'
                              /\ lives' = upgrades'.maxLives))

\* C35: the step that leaves GUARDIAN_RESULT leads to START, adds the reward
\* (5 coins per kill of the run and one per second since its start) to the
\* lifetime coins, and leaves the world reset: the lists of bullets, enemy
\* bullets, enemies and power-ups empty, the guardian flag down and the escape
\* counter at 0; outside a session the lifetime coins rise in no other step,
\* so the reward is granted once per finished guardian run and never without
\* one.
C35_AckGuardian ==
    /\ [][gameState = "GUARDIAN_RESULT" /\ gameState' # gameState
          => /\ gameState' = "START"
             /\ totalCoins' >= totalCoins + 5 * engine.enemiesKilled
             /\ engine'.bullets = <<>> /\ engine'.enemyBullets = <<>>
             /\ engine'.enemies = <<>> /\ engine'.powerUps = <<>>
             /\ ~isGuardianMode'
             /\ escapedEnemies' = 0]_vars
    /\ [][totalCoins' > totalCoins /\ gameState # "PLAYING"
          => gameState = "GUARDIAN_RESULT" /\ gameState' = "START"]_vars

\* A normal session: started, and not yet left for START or a guardian start.
NormalSession == ~isGuardianMode /\ gameState \in {"PLAYING", "PAUSED", "GAMEOVER"}

\* C38: in every state of a normal session 0 <= lives <= maxLives; a normal
\* start sets lives to maxLives; and no step of a normal session raises lives,
\* takes more than one life or changes maxLives.
C38_LivesBounds ==
    /\ [](NormalSession => 0 <= lives /\ lives <= upgrades.maxLives)
    /\ [][gameState # "PLAYING" /\ gameState' = "PLAYING" /\ gameState # "PAUSED"
          /\ ~isGuardianMode'
          => lives' = upgrades'.maxLives]_vars
    /\ [][NormalSession /\ NormalSession'
          => /\ lives' \in {lives, lives - 1}
             /\ upgrades'.maxLives = upgrades.maxLives]_vars

\* A normal session on bought upgrades has lost two of its four lives and is
\* protected after the second contact.
C38_Witness ==
    /\ ~isGuardianMode
    /\ gameState = "PLAYING"
    /\ upgrades.maxLives = 4
    /\ lives = 2
    /\ engine.invulnerable = InvulnContact - 1

\* The enemies killed in the frame just made, by their index when it started,
\* and the sum of the score values of the enemies in S.
Killed ==
    {engine'.log[i].tag :
        i \in {j \in 1..Len(engine'.log) :
                 engine'.log[j].list = "enemies" /\ engine'.log[j].did = "kill"}}

RECURSIVE Worth(_)
Worth(S) ==
    IF S = {} THEN 0
    ELSE LET t == CHOOSE x \in S : TRUE
         IN (IF t <= Len(engine.enemies) THEN engine.enemies[t].score ELSE 0)
            + Worth(S \ {t})

\* C39: within a session the score never decreases: a tick adds the score
\* values of the enemies killed in it and nothing else, so a tick without a
\* kill (with an escape, a player hit, a pickup or a level-up) leaves the
\* score as it is; and no other step changes the score but a start, which
\* sets it to 0.
C39_Score ==
    /\ [][FrameStep => score' = score + Worth(Killed)]_vars
    /\ [][FrameStep /\ engine'.enemiesKilled = engine.enemiesKilled
          => score' = score]_vars
    /\ [][score' # score /\ ~FrameStep
          => score' = 0 /\ gameState # "PLAYING" /\ gameState' = "PLAYING"]_vars

\* C32: `untouchable' is unlocked by a frame that takes level from 4 to 5 in
\* a run that has lost no life, and by no other step; every frame that takes
\* level to 5 with the lost-life flag down unlocks it; and the flag is the
\* run's: it goes up in the frame that takes a life, in no other step, and
\* comes down only with a start.
C32_Untouchable ==
    /\ [][("untouchable" \in achievements' /\ "untouchable" \notin achievements)
          => /\ FrameStep
             /\ level' = UntouchableLevel /\ level = UntouchableLevel - 1
             /\ ~engine'.lostLifeThisRun
             /\ lives' = lives]_vars
    /\ [][FrameStep /\ level' = UntouchableLevel /\ level < UntouchableLevel
          /\ ~engine'.lostLifeThisRun
          => "untouchable" \in achievements']_vars
    /\ [][engine'.lostLifeThisRun # engine.lostLifeThisRun
          => IF engine'.lostLifeThisRun
             THEN FrameStep /\ lives' = lives - 1
             ELSE gameState # "PLAYING" /\ gameState' = "PLAYING"
                  /\ engine'.frameCount = 0]_vars
    /\ [][FrameStep /\ lives' # lives => engine'.lostLifeThisRun]_vars

\* Level 5 has been reached by a run that lost a life to a contact some frames
\* before: `untouchable' stays locked.
C32_Witness ==
    /\ gameState = "PLAYING"
    /\ level = UntouchableLevel
    /\ engine.lostLifeThisRun
    /\ lives = upgrades.maxLives - 1
    /\ engine.invulnerable < InvulnContact - 1
    /\ "untouchable" \notin achievements

\* C36: after every start and every frame the bossActive flag is up if and
\* only if an enemy of type BOSS is in the enemy list.
C36_BossFlag == engine.bossActive <=> Listed("BOSS")

\* C33: in a PLAYING session, a frame in which the enemy-spawn timer fires
\* with no BOSS in the enemy list adds an enemy: unless the same frame raises
\* the level, which empties the list, or an enemy touches the player, an
\* enemy is listed after it.
C33_SpawnResumes ==
    [][/\ FrameStep
       /\ engine.enemySpawnTimer + 1 > SpawnRate(level)
       /\ ~Listed("BOSS")
       /\ score <= level * LevelScore
       /\ ~HitByEnemy
       => engine'.enemies # <<>>]_vars

\* The world entities of the model: the player, the four entity lists and
\* the level-up flag.
Entities(e) ==
    <<e.shield, e.invulnerable, e.tripleShot, e.bullets, e.enemyBullets, e.enemies,
      e.powerUps, e.levelUpPending>>

\* C34: the world entities change only in a frame of update() and in a
\* start, which initializes them: no timer callback or other step between
\* two frames changes them; and a timeout that was pending when a session
\* started changes no entity of that session when it comes due.
C34_InsideTick ==
    /\ [][Entities(engine') # Entities(engine)
          => \/ FrameStep
             \/ gameState # "PLAYING" /\ gameState' = "PLAYING"
                /\ engine'.frameCount = 0]_vars
    /\ [][/\ gameState = "PLAYING" /\ engine.frameCount = 0
          /\ engine'.levelUpTimers < engine.levelUpTimers
          => Entities(engine') = Entities(engine)]_vars

=========================================================================
